---- MODULE Spec2Model ----
(***************************************************************************)
(* Package README Core MCP Server: the package-manager detection, the      *)
(* confidence calculation, the execution-strategy selection and the        *)
(* dispatch of the smart_package_* tools to the backend MCP servers.       *)
(*                                                                         *)
(* Strings are sequences of one-character strings.  Confidences and        *)
(* weights are fixed-point integers: a weight w is the integer 100*w, a    *)
(* confidence c the integer 100000*c, a result score s the integer         *)
(* 10000000*s.  All products of the code's constants are exact in these    *)
(* units.                                                                  *)
(***************************************************************************)
EXTENDS Integers, Sequences, FiniteSets, TLC

(***************************************************************************)
(* Characters and string helpers                                           *)
(***************************************************************************)
LowerLetters ==
  {"a","b","c","d","e","f","g","h","i","j","k","l","m",
   "n","o","p","q","r","s","t","u","v","w","x","y","z"}

UpperLetters ==
  {"A","B","C","D","E","F","G","H","I","J","K","L","M",
   "N","O","P","Q","R","S","T","U","V","W","X","Y","Z"}

Digits == {"0","1","2","3","4","5","6","7","8","9"}

\* The NUL character and the line feed, as characters of a string.
NUL == "NUL"

LF == "LF"

\* The double quote, as a character of a string.
DoubleQuote == "DQUOTE"

\* Line terminators: the characters the regular-expression dot does not match.
LineTerminators == {LF, "CR", "LS", "PS"}

WhiteSpace == {" ", "TAB", LF, "CR"}

UpperSeq == <<"A","B","C","D","E","F","G","H","I","J","K","L","M",
              "N","O","P","Q","R","S","T","U","V","W","X","Y","Z">>

LowerSeq == <<"a","b","c","d","e","f","g","h","i","j","k","l","m",
              "n","o","p","q","r","s","t","u","v","w","x","y","z">>

\* The lower-case letter of each upper-case letter.
LowerOf ==
  [c \in UpperLetters |-> LowerSeq[CHOOSE i \in 1..26 : UpperSeq[i] = c]]

\* String.prototype.toLowerCase, one character.
LowerChar(c) == IF c \in UpperLetters THEN LowerOf[c] ELSE c

\* String.prototype.toLowerCase.
RECURSIVE ToLowerCase(_)
ToLowerCase(s) ==
  IF s = <<>> THEN <<>>
  ELSE <<LowerChar(Head(s))>> \o ToLowerCase(Tail(s))

\* String.prototype.includes: sub occurs in s as a contiguous substring.
Includes(s, sub) ==
  \E i \in 0..(Len(s) - Len(sub)) :
    \A k \in 1..Len(sub) : s[i + k] = sub[k]

\* String.prototype.endsWith.
EndsWith(s, sub) ==
  /\ Len(sub) <= Len(s)
  /\ \A k \in 1..Len(sub) : s[Len(s) - Len(sub) + k] = sub[k]

\* Every character of s[i..j] is in the class C.
AllIn(s, i, j, C) == \A k \in i..j : s[k] \in C

\* The set of elements of a sequence.
Range(s) == {s[i] : i \in 1..Len(s)}

Min(a, b) == IF a <= b THEN a ELSE b

Max(a, b) == IF a >= b THEN a ELSE b

(***************************************************************************)
(* config/patterns.ts: PACKAGE_NAME_PATTERNS                               *)
(***************************************************************************)
\* The package managers, in the key order of PACKAGE_NAME_PATTERNS.
PackageManagers ==
  <<"npm", "composer", "pip", "cargo", "maven", "nuget", "gem", "cocoapods",
    "conan", "cpan", "cran", "docker_hub", "helm", "swift", "vcpkg">>

PackageManagerSet == Range(PackageManagers)

LowerAlnum == LowerLetters \cup Digits

Alnum == LowerLetters \cup UpperLetters \cup Digits

\* [a-z0-9-~]
NpmHead == LowerAlnum \cup {"-", "~"}

\* [a-z0-9-._~]
NpmTail == LowerAlnum \cup {"-", ".", "_", "~"}

\* [a-zA-Z0-9._-]
DotDashWord == Alnum \cup {".", "_", "-"}

\* [a-z0-9]([_.-]?[a-z0-9]+)* and [a-z0-9]+(?:[._-][a-z0-9]+)* on s[i..j]:
\* lower-case alphanumerics with single separators strictly inside.
SeparatedSegment(s, i, j) ==
  /\ i <= j
  /\ AllIn(s, i, j, LowerAlnum \cup {"_", ".", "-"})
  /\ s[i] \in LowerAlnum
  /\ s[j] \in LowerAlnum
  /\ \A k \in i..(j - 1) : s[k] \in LowerAlnum \/ s[k + 1] \in LowerAlnum

\* /^@[a-z0-9-~][a-z0-9-._~]*\/[a-z0-9-~][a-z0-9-._~]*$/
NpmScopedPattern(s) ==
  \E p \in 3..(Len(s) - 1) :
    /\ s[1] = "@"
    /\ s[p] = "/"
    /\ s[2] \in NpmHead
    /\ AllIn(s, 3, p - 1, NpmTail)
    /\ s[p + 1] \in NpmHead
    /\ AllIn(s, p + 2, Len(s), NpmTail)

\* /^[a-z0-9-~][a-z0-9-._~]*$/
NpmPlainPattern(s) ==
  /\ Len(s) >= 1
  /\ s[1] \in NpmHead
  /\ AllIn(s, 2, Len(s), NpmTail)

\* vendor/package: two separated segments around exactly one slash.
VendorPackagePattern(s) ==
  \E p \in 2..(Len(s) - 1) :
    /\ s[p] = "/"
    /\ SeparatedSegment(s, 1, p - 1)
    /\ SeparatedSegment(s, p + 1, Len(s))

\* /^[A-Z0-9]|[A-Z0-9][A-Z0-9._-]*[A-Z0-9]$/i : the alternation binds
\* weaker than the anchors, so either the name starts with an alphanumeric
\* or it ends with an alphanumeric run of length two or more.
PipPattern(s) ==
  \/ (Len(s) >= 1 /\ s[1] \in Alnum)
  \/ \E i \in 1..(Len(s) - 1) :
       /\ s[i] \in Alnum
       /\ s[Len(s)] \in Alnum
       /\ AllIn(s, i + 1, Len(s) - 1, DotDashWord)

\* /^[a-zA-Z][a-zA-Z0-9_-]*$/
CargoPattern(s) ==
  /\ Len(s) >= 1
  /\ s[1] \in LowerLetters \cup UpperLetters
  /\ AllIn(s, 2, Len(s), Alnum \cup {"_", "-"})

\* /^[a-zA-Z0-9._-]+:[a-zA-Z0-9._-]+$/
MavenPattern(s) ==
  \E p \in 2..(Len(s) - 1) :
    /\ s[p] = ":"
    /\ AllIn(s, 1, p - 1, DotDashWord)
    /\ AllIn(s, p + 1, Len(s), DotDashWord)

\* /^[A-Za-z0-9._-]+$/ (nuget, gem, cocoapods, conan, swift)
DotDashWordPattern(s) == Len(s) >= 1 /\ AllIn(s, 1, Len(s), DotDashWord)

\* /^[A-Za-z0-9:_-]+$/
CpanPattern(s) ==
  Len(s) >= 1 /\ AllIn(s, 1, Len(s), Alnum \cup {":", "_", "-"})

\* /^[a-zA-Z0-9.]+$/
CranPattern(s) == Len(s) >= 1 /\ AllIn(s, 1, Len(s), Alnum \cup {"."})

\* /^[a-z0-9]+(?:[._-][a-z0-9]+)*$/
DockerPlainPattern(s) == SeparatedSegment(s, 1, Len(s))

\* /^[a-z0-9]([-a-z0-9]*[a-z0-9])?$/
HelmPattern(s) ==
  /\ Len(s) >= 1
  /\ AllIn(s, 1, Len(s), LowerAlnum \cup {"-"})
  /\ s[1] \in LowerAlnum
  /\ s[Len(s)] \in LowerAlnum

\* /^[a-z0-9-]+$/
VcpkgPattern(s) == Len(s) >= 1 /\ AllIn(s, 1, Len(s), LowerAlnum \cup {"-"})

\* PACKAGE_NAME_PATTERNS[manager].length
PatternCount(manager) ==
  IF manager \in {"npm", "docker_hub"} THEN 2 ELSE 1

\* PACKAGE_NAME_PATTERNS[manager][k].test(s), k counted from 1.
PACKAGE_NAME_PATTERNS(manager, k, s) ==
  CASE manager = "npm" /\ k = 1 -> NpmScopedPattern(s)
    [] manager = "npm" /\ k = 2 -> NpmPlainPattern(s)
    [] manager = "composer" -> VendorPackagePattern(s)
    [] manager = "pip" -> PipPattern(s)
    [] manager = "cargo" -> CargoPattern(s)
    [] manager = "maven" -> MavenPattern(s)
    [] manager \in {"nuget", "gem", "cocoapods", "conan", "swift"} ->
         DotDashWordPattern(s)
    [] manager = "cpan" -> CpanPattern(s)
    [] manager = "cran" -> CranPattern(s)
    [] manager = "docker_hub" /\ k = 1 -> VendorPackagePattern(s)
    [] manager = "docker_hub" /\ k = 2 -> DockerPlainPattern(s)
    [] manager = "helm" -> HelmPattern(s)
    [] manager = "vcpkg" -> VcpkgPattern(s)

(***************************************************************************)
(* config/patterns.ts: CONTEXT_HINT_PATTERNS                               *)
(***************************************************************************)
FILE_EXTENSIONS ==
  [ npm |->
     << <<".", "j", "s">>,
        <<".", "t", "s">>,
        <<".", "j", "s", "x">>,
        <<".", "t", "s", "x">>,
        <<".", "j", "s", "o", "n">>,
        <<".", "m", "j", "s">>,
        <<".", "c", "j", "s">> >>,
    composer |->
     << <<".", "p", "h", "p">> >>,
    pip |->
     << <<".", "p", "y">>,
        <<".", "p", "y", "w">> >>,
    cargo |->
     << <<".", "r", "s">> >>,
    maven |->
     << <<".", "j", "a", "v", "a">>,
        <<".", "x", "m", "l">> >>,
    nuget |->
     << <<".", "c", "s">>,
        <<".", "v", "b">>,
        <<".", "f", "s">>,
        <<".", "c", "s", "p", "r", "o", "j">>,
        <<".", "v", "b", "p", "r", "o", "j">>,
        <<".", "f", "s", "p", "r", "o", "j">> >>,
    gem |->
     << <<".", "r", "b">>,
        <<".", "g", "e", "m", "s", "p", "e", "c">> >>,
    cocoapods |->
     << <<".", "s", "w", "i", "f", "t">>,
        <<".", "m">>,
        <<".", "h">>,
        <<".", "p", "o", "d", "s", "p", "e", "c">> >>,
    conan |->
     << <<".", "c", "p", "p">>,
        <<".", "c", "c">>,
        <<".", "c", "x", "x">>,
        <<".", "c">>,
        <<".", "h">>,
        <<".", "h", "p", "p">> >>,
    cpan |->
     << <<".", "p", "l">>,
        <<".", "p", "m">>,
        <<".", "t">> >>,
    cran |->
     << <<".", "R">>,
        <<".", "r">> >>,
    docker_hub |->
     << <<".", "d", "o", "c", "k", "e", "r", "f", "i", "l", "e">> >>,
    helm |->
     << <<".", "y", "a", "m", "l">>,
        <<".", "y", "m", "l">> >>,
    swift |->
     << <<".", "s", "w", "i", "f", "t">> >>,
    vcpkg |->
     << <<".", "c", "p", "p">>,
        <<".", "c", "c">>,
        <<".", "c", "x", "x">>,
        <<".", "c">>,
        <<".", "h">>,
        <<".", "h", "p", "p">> >> ]

KEYWORDS ==
  [ npm |->
     << <<"n", "o", "d", "e">>,
        <<"n", "o", "d", "e", "j", "s">>,
        <<"j", "a", "v", "a", "s", "c", "r", "i", "p", "t">>,
        <<"t", "y", "p", "e", "s", "c", "r", "i", "p", "t">>,
        <<"r", "e", "a", "c", "t">>,
        <<"v", "u", "e">>,
        <<"a", "n", "g", "u", "l", "a", "r">>,
        <<"e", "x", "p", "r", "e", "s", "s">>,
        <<"w", "e", "b", "p", "a", "c", "k">>,
        <<"b", "a", "b", "e", "l">> >>,
    composer |->
     << <<"p", "h", "p">>,
        <<"l", "a", "r", "a", "v", "e", "l">>,
        <<"s", "y", "m", "f", "o", "n", "y">>,
        <<"d", "r", "u", "p", "a", "l">>,
        <<"w", "o", "r", "d", "p", "r", "e", "s", "s">>,
        <<"z", "e", "n", "d">> >>,
    pip |->
     << <<"p", "y", "t", "h", "o", "n">>,
        <<"d", "j", "a", "n", "g", "o">>,
        <<"f", "l", "a", "s", "k">>,
        <<"f", "a", "s", "t", "a", "p", "i">>,
        <<"p", "a", "n", "d", "a", "s">>,
        <<"n", "u", "m", "p", "y">>,
        <<"s", "c", "i", "p", "y">>,
        <<"m", "a", "t", "p", "l", "o", "t", "l", "i", "b">> >>,
    cargo |->
     << <<"r", "u", "s", "t">>,
        <<"r", "u", "s", "t", "l", "a", "n", "g">>,
        <<"t", "o", "k", "i", "o">>,
        <<"s", "e", "r", "d", "e">>,
        <<"a", "c", "t", "i", "x">> >>,
    maven |->
     << <<"j", "a", "v", "a">>,
        <<"m", "a", "v", "e", "n">>,
        <<"s", "p", "r", "i", "n", "g">>,
        <<"h", "i", "b", "e", "r", "n", "a", "t", "e">>,
        <<"j", "u", "n", "i", "t">>,
        <<"g", "r", "a", "d", "l", "e">> >>,
    nuget |->
     << <<"d", "o", "t", "n", "e", "t">>,
        <<"c", "s", "h", "a", "r", "p">>,
        <<"v", "b", ".", "n", "e", "t">>,
        <<"f", "s", "h", "a", "r", "p">>,
        <<"a", "s", "p", "n", "e", "t">>,
        <<"e", "n", "t", "i", "t", "y">>,
        <<"f", "r", "a", "m", "e", "w", "o", "r", "k">> >>,
    gem |->
     << <<"r", "u", "b", "y">>,
        <<"r", "a", "i", "l", "s">>,
        <<"s", "i", "n", "a", "t", "r", "a">>,
        <<"r", "s", "p", "e", "c">>,
        <<"b", "u", "n", "d", "l", "e", "r">>,
        <<"j", "e", "k", "y", "l", "l">> >>,
    cocoapods |->
     << <<"i", "o", "s">>,
        <<"m", "a", "c", "o", "s">>,
        <<"s", "w", "i", "f", "t">>,
        <<"o", "b", "j", "e", "c", "t", "i", "v", "e", "-", "c">>,
        <<"x", "c", "o", "d", "e">>,
        <<"c", "o", "c", "o", "a">> >>,
    conan |->
     << <<"c", "p", "p">>,
        <<"c", "+", "+">>,
        <<"c", "m", "a", "k", "e">>,
        <<"g", "c", "c">>,
        <<"c", "l", "a", "n", "g">>,
        <<"v", "i", "s", "u", "a", "l", " ", "s", "t", "u", "d", "i", "o">> >>,
    cpan |->
     << <<"p", "e", "r", "l">>,
        <<"c", "p", "a", "n">>,
        <<"m", "e", "t", "a", "c", "p", "a", "n">>,
        <<"p", "e", "r", "l", "5">>,
        <<"m", "o", "o", "s", "e">> >>,
    cran |->
     << <<"r">>,
        <<"r", "s", "t", "a", "t", "s">>,
        <<"g", "g", "p", "l", "o", "t">>,
        <<"d", "p", "l", "y", "r">>,
        <<"s", "h", "i", "n", "y">>,
        <<"t", "i", "d", "y", "v", "e", "r", "s", "e">> >>,
    docker_hub |->
     << <<"d", "o", "c", "k", "e", "r">>,
        <<"c", "o", "n", "t", "a", "i", "n", "e", "r">>,
        <<"d", "o", "c", "k", "e", "r", "f", "i", "l", "e">>,
        <<"c", "o", "m", "p", "o", "s", "e">>,
        <<"k", "u", "b", "e", "r", "n", "e", "t", "e", "s">> >>,
    helm |->
     << <<"h", "e", "l", "m">>,
        <<"k", "u", "b", "e", "r", "n", "e", "t", "e", "s">>,
        <<"k", "8", "s">>,
        <<"c", "h", "a", "r", "t">>,
        <<"t", "i", "l", "l", "e", "r">> >>,
    swift |->
     << <<"s", "w", "i", "f", "t">>,
        <<"s", "w", "i", "f", "t", "p", "m">>,
        <<"i", "o", "s">>,
        <<"m", "a", "c", "o", "s">>,
        <<"x", "c", "o", "d", "e">> >>,
    vcpkg |->
     << <<"v", "c", "p", "k", "g">>,
        <<"c", "p", "p">>,
        <<"c", "+", "+">>,
        <<"v", "i", "s", "u", "a", "l">>,
        <<"s", "t", "u", "d", "i", "o">>,
        <<"c", "m", "a", "k", "e">> >> ]

FRAMEWORK_PACKAGES ==
  [ npm |->
     << <<"r", "e", "a", "c", "t">>,
        <<"v", "u", "e">>,
        <<"a", "n", "g", "u", "l", "a", "r">>,
        <<"e", "x", "p", "r", "e", "s", "s">>,
        <<"n", "e", "x", "t">>,
        <<"n", "u", "x", "t">>,
        <<"g", "a", "t", "s", "b", "y">> >>,
    composer |->
     << <<"l", "a", "r", "a", "v", "e", "l", "/", "f", "r", "a", "m", "e", "w", "o", "r", "k">>,
        <<"s", "y", "m", "f", "o", "n", "y", "/", "s", "y", "m", "f", "o", "n", "y">>,
        <<"d", "r", "u", "p", "a", "l", "/", "c", "o", "r", "e">> >>,
    pip |->
     << <<"d", "j", "a", "n", "g", "o">>,
        <<"f", "l", "a", "s", "k">>,
        <<"f", "a", "s", "t", "a", "p", "i">>,
        <<"t", "o", "r", "n", "a", "d", "o">>,
        <<"p", "y", "r", "a", "m", "i", "d">> >>,
    cargo |->
     << <<"t", "o", "k", "i", "o">>,
        <<"s", "e", "r", "d", "e">>,
        <<"a", "c", "t", "i", "x", "-", "w", "e", "b">>,
        <<"r", "o", "c", "k", "e", "t">>,
        <<"w", "a", "r", "p">> >>,
    maven |->
     << <<"s", "p", "r", "i", "n", "g", "-", "b", "o", "o", "t">>,
        <<"h", "i", "b", "e", "r", "n", "a", "t", "e">>,
        <<"j", "u", "n", "i", "t">>,
        <<"m", "o", "c", "k", "i", "t", "o">> >>,
    nuget |->
     << <<"M", "i", "c", "r", "o", "s", "o", "f", "t", ".", "A", "s", "p", "N", "e", "t", "C", "o", "r", "e">>,
        <<"E", "n", "t", "i", "t", "y", "F", "r", "a", "m", "e", "w", "o", "r", "k">>,
        <<"N", "e", "w", "t", "o", "n", "s", "o", "f", "t", ".", "J", "s", "o", "n">> >>,
    gem |->
     << <<"r", "a", "i", "l", "s">>,
        <<"s", "i", "n", "a", "t", "r", "a">>,
        <<"r", "s", "p", "e", "c">>,
        <<"c", "a", "p", "y", "b", "a", "r", "a">> >>,
    cocoapods |->
     << <<"A", "l", "a", "m", "o", "f", "i", "r", "e">>,
        <<"S", "n", "a", "p", "K", "i", "t">>,
        <<"R", "x", "S", "w", "i", "f", "t">> >>,
    conan |->
     << <<"b", "o", "o", "s", "t">>,
        <<"p", "o", "c", "o">>,
        <<"p", "r", "o", "t", "o", "b", "u", "f">> >>,
    cpan |->
     << <<"M", "o", "j", "o", "l", "i", "c", "i", "o", "u", "s">>,
        <<"C", "a", "t", "a", "l", "y", "s", "t">>,
        <<"D", "B", "I", "x", ":", ":", "C", "l", "a", "s", "s">> >>,
    cran |->
     << <<"g", "g", "p", "l", "o", "t", "2">>,
        <<"d", "p", "l", "y", "r">>,
        <<"s", "h", "i", "n", "y">>,
        <<"k", "n", "i", "t", "r">> >>,
    docker_hub |->
     << <<"n", "g", "i", "n", "x">>,
        <<"r", "e", "d", "i", "s">>,
        <<"p", "o", "s", "t", "g", "r", "e", "s">>,
        <<"m", "y", "s", "q", "l">> >>,
    helm |->
     << <<"i", "n", "g", "r", "e", "s", "s", "-", "n", "g", "i", "n", "x">>,
        <<"c", "e", "r", "t", "-", "m", "a", "n", "a", "g", "e", "r">>,
        <<"p", "r", "o", "m", "e", "t", "h", "e", "u", "s">> >>,
    swift |->
     << <<"A", "l", "a", "m", "o", "f", "i", "r", "e">>,
        <<"S", "n", "a", "p", "K", "i", "t">>,
        <<"R", "x", "S", "w", "i", "f", "t">> >>,
    vcpkg |->
     << <<"b", "o", "o", "s", "t">>,
        <<"o", "p", "e", "n", "c", "v">>,
        <<"c", "u", "r", "l">> >> ]

\* CONFIDENCE_CALCULATION.weights, as multipliers of a score in hundredths
\* giving a confidence in hundred-thousandths.
WEIGHT_EXACT_PACKAGE_NAME_MATCH == 400

WEIGHT_PACKAGE_NAME_PATTERN == 300

WEIGHT_CONTEXT_HINTS == 200

WEIGHT_USER_PREFERENCE == 100

\* CONFIDENCE_CALCULATION.thresholds
HIGH_CONFIDENCE == 80000

MEDIUM_CONFIDENCE == 60000

\* confidence_thresholds.minimum_confidence of config/detection-settings.json
MINIMUM_CONFIDENCE == 30000

\* The slice bound of the medium-confidence strategy.
MEDIUM_PARALLEL_COUNT == 3

(***************************************************************************)
(* Detections                                                              *)
(***************************************************************************)
\* A DetectionReason; the description is kept only as far as the code reads
\* it: whether it includes the text 'User preferred'.
Reason(type, weight, userPreferred) ==
  [type |-> type, weight |-> weight, userPreferred |-> userPreferred]

\* A DetectedManager.
Detection(manager, confidence, reasons) ==
  [manager |-> manager, confidence |-> confidence,
   detection_reasons |-> reasons, available |-> TRUE]

Repeat(r, n) == [i \in 1..n |-> r]

\* Index of the detection of a manager in a list, 0 when there is none
\* (Array.prototype.find / Map.prototype.get on the manager key).
IndexOfManager(dets, manager) ==
  IF \E i \in 1..Len(dets) : dets[i].manager = manager
    THEN CHOOSE i \in 1..Len(dets) : dets[i].manager = manager
    ELSE 0

\* Insert e into a list of [key, item] entries sorted by non-increasing key,
\* after every entry that does not compare greater: Array.prototype.sort
\* with a comparator (a, b) => key(b) - key(a) is stable.
RECURSIVE InsertByKey(_, _)
InsertByKey(sorted, e) ==
  IF sorted = <<>> THEN <<e>>
  ELSE IF Head(sorted).key >= e.key
    THEN <<Head(sorted)>> \o InsertByKey(Tail(sorted), e)
    ELSE <<e>> \o sorted

RECURSIVE SortEntries(_)
SortEntries(entries) ==
  IF entries = <<>> THEN <<>>
  ELSE InsertByKey(SortEntries(SubSeq(entries, 1, Len(entries) - 1)),
                   entries[Len(entries)])

\* items sorted by non-increasing keys[i], stably.
SortDescending(items, keys) ==
  LET sorted == SortEntries([i \in 1..Len(items) |->
                               [key |-> keys[i], item |-> items[i]]])
  IN  [i \in 1..Len(sorted) |-> sorted[i].item]

\* detections.sort((a, b) => b.confidence - a.confidence)
SortByConfidence(dets) ==
  SortDescending(dets, [i \in 1..Len(dets) |-> dets[i].confidence])

(***************************************************************************)
(* PatternDetector                                                         *)
(***************************************************************************)
\* PatternDetector.calculatePatternConfidence
calculatePatternConfidence(matchedCount, totalPatterns) ==
  Min(90000, 60000 + (matchedCount - 1) * 10000
             + Max(0, (3 - totalPatterns) * 5000))

\* patterns.filter(pattern => pattern.test(packageName)).length
MatchedPatternCount(manager, packageName) ==
  Cardinality({k \in 1..PatternCount(manager) :
                 PACKAGE_NAME_PATTERNS(manager, k, packageName)})

RECURSIVE PatternDetectionsFrom(_, _)
PatternDetectionsFrom(packageName, i) ==
  IF i > Len(PackageManagers) THEN <<>>
  ELSE LET manager == PackageManagers[i]
           n == MatchedPatternCount(manager, packageName)
           found ==
             IF n > 0
               THEN << Detection(manager,
                         calculatePatternConfidence(n, PatternCount(manager)),
                         [index \in 1..n |->
                            Reason("package_name_pattern",
                                   80 - (index - 1) * 10, FALSE)]) >>
               ELSE <<>>
       IN  found \o PatternDetectionsFrom(packageName, i + 1)

\* PatternDetector.detectByPackageName
detectByPackageName(packageName) ==
  SortByConfidence(PatternDetectionsFrom(packageName, 1))

\* The npm limit on the length of a package name.
MAX_PACKAGE_NAME_LENGTH == 214

\* /../ : the dot matches any character but a line terminator, so the
\* pattern matches any two adjacent characters that are not line terminators.
PathTraversalPattern(s) ==
  \E i \in 1..(Len(s) - 1) :
    s[i] \notin LineTerminators /\ s[i + 1] \notin LineTerminators

SCRIPT_TAG == <<"<", "s", "c", "r", "i", "p", "t", ">">>

JAVASCRIPT_SCHEME == <<"j", "a", "v", "a", "s", "c", "r", "i", "p", "t", ":">>

DATA_SCHEME == <<"d", "a", "t", "a", ":">>

\* dangerousPatterns.some(pattern => pattern.test(packageName))
MatchesDangerousPattern(s) ==
  \/ PathTraversalPattern(s)
  \/ Includes(ToLowerCase(s), SCRIPT_TAG)
  \/ Includes(ToLowerCase(s), JAVASCRIPT_SCHEME)
  \/ Includes(ToLowerCase(s), DATA_SCHEME)
  \/ \E i \in 1..Len(s) : s[i] = NUL

\* PatternDetector.validatePackageName
validatePackageName(packageName) ==
  /\ packageName # <<>>
  /\ Len(packageName) <= MAX_PACKAGE_NAME_LENGTH
  /\ Len(packageName) >= 1
  /\ ~MatchesDangerousPattern(packageName)

(***************************************************************************)
(* ContextAnalyzer                                                         *)
(***************************************************************************)
MAX_HINT_LENGTH == 100

RECURSIVE CollapseWhitespace(_)
CollapseWhitespace(s) ==
  IF s = <<>> THEN <<>>
  ELSE IF Head(s) \in WhiteSpace
    THEN IF Len(s) >= 2 /\ s[2] \in WhiteSpace
           THEN CollapseWhitespace(Tail(s))
           ELSE <<" ">> \o CollapseWhitespace(Tail(s))
    ELSE <<Head(s)>> \o CollapseWhitespace(Tail(s))

\* String.prototype.trim
Trim(s) ==
  IF \A i \in 1..Len(s) : s[i] \in WhiteSpace THEN <<>>
  ELSE LET first == CHOOSE i \in 1..Len(s) :
                      s[i] \notin WhiteSpace
                      /\ \A k \in 1..(i - 1) : s[k] \in WhiteSpace
           last == CHOOSE j \in 1..Len(s) :
                     s[j] \notin WhiteSpace
                     /\ \A k \in (j + 1)..Len(s) : s[k] \in WhiteSpace
       IN  SubSeq(s, first, last)

\* The characters sanitizeHint removes: angle brackets and the three quotes.
DangerousHintChars == {"<", ">", DoubleQuote, "APOSTROPHE", "BACKTICK"}

\* String.prototype.replace with a character class and the empty string.
RECURSIVE RemoveChars(_, _)
RemoveChars(s, C) ==
  IF s = <<>> THEN <<>>
  ELSE IF Head(s) \in C THEN RemoveChars(Tail(s), C)
  ELSE <<Head(s)>> \o RemoveChars(Tail(s), C)

\* ContextAnalyzer.sanitizeHint; the empty string stands for null, which the
\* caller treats alike.
sanitizeHint(hint) ==
  LET capped == SubSeq(hint, 1, Min(Len(hint), MAX_HINT_LENGTH))
      cleaned == RemoveChars(capped, DangerousHintChars)
  IN  CollapseWhitespace(Trim(cleaned))

\* extensions.filter(ext => lowerHint.includes(ext) || lowerHint.endsWith(ext))
MatchedExtensions(manager, lowerHint) ==
  Cardinality({i \in 1..Len(FILE_EXTENSIONS[manager]) :
     \/ Includes(lowerHint, FILE_EXTENSIONS[manager][i])
     \/ EndsWith(lowerHint, FILE_EXTENSIONS[manager][i])})

\* keyword.toLowerCase() of every keyword, and framework.toLowerCase() of
\* every framework package.
LOWER_KEYWORDS ==
  [m \in PackageManagerSet |->
     [i \in 1..Len(KEYWORDS[m]) |-> ToLowerCase(KEYWORDS[m][i])]]

LOWER_FRAMEWORK_PACKAGES ==
  [m \in PackageManagerSet |->
     [i \in 1..Len(FRAMEWORK_PACKAGES[m]) |->
        ToLowerCase(FRAMEWORK_PACKAGES[m][i])]]

\* keywords.filter(keyword => lowerHint.includes(keyword.toLowerCase()))
MatchedKeywords(manager, lowerHint) ==
  Cardinality({i \in 1..Len(KEYWORDS[manager]) :
     Includes(lowerHint, LOWER_KEYWORDS[manager][i])})

\* frameworks.filter(framework => lowerHint.includes(framework.toLowerCase()))
MatchedFrameworks(manager, lowerHint) ==
  Cardinality({i \in 1..Len(FRAMEWORK_PACKAGES[manager]) :
     Includes(lowerHint, LOWER_FRAMEWORK_PACKAGES[manager][i])})

\* One pass of analyzeHint over the managers from index i on: count(manager)
\* matches add base + 10000 per match to an existing detection of the hint,
\* or create one, with one reason per match.
RECURSIVE HintPass(_, _, _, _, _, _)
HintPass(dets, count, base, type, weight, i) ==
  IF i > Len(PackageManagers) THEN dets
  ELSE LET manager == PackageManagers[i]
           n == count[manager]
           confidence == base + n * 10000
           reasons == Repeat(Reason(type, weight, FALSE), n)
           at == IndexOfManager(dets, manager)
           next ==
             IF n = 0 THEN dets
             ELSE IF at # 0
               THEN [dets EXCEPT
                       ![at].confidence = @ + confidence,
                       ![at].detection_reasons = @ \o reasons]
               ELSE Append(dets, Detection(manager, confidence, reasons))
       IN  HintPass(next, count, base, type, weight, i + 1)

\* ContextAnalyzer.analyzeHint
analyzeHint(hint) ==
  LET lowerHint == ToLowerCase(hint)
      ext == [m \in PackageManagerSet |-> MatchedExtensions(m, lowerHint)]
      kw == [m \in PackageManagerSet |-> MatchedKeywords(m, lowerHint)]
      fw == [m \in PackageManagerSet |-> MatchedFrameworks(m, lowerHint)]
      afterExt == HintPass(<<>>, ext, 40000, "file_pattern", 30, 1)
      afterKw == HintPass(afterExt, kw, 30000, "context_hint", 20, 1)
  IN  HintPass(afterKw, fw, 50000, "dependency_pattern", 40, 1)

\* The merge of the detections of one hint into the map of analyzeContextHints.
RECURSIVE MergeHintDetections(_, _)
MergeHintDetections(acc, dets) ==
  IF dets = <<>> THEN acc
  ELSE LET d == Head(dets)
           at == IndexOfManager(acc, d.manager)
           next ==
             IF at # 0
               THEN [acc EXCEPT
                       ![at].detection_reasons = @ \o d.detection_reasons,
                       ![at].confidence = Min(90000, @ + 10000)]
               ELSE Append(acc, d)
       IN  MergeHintDetections(next, Tail(dets))

RECURSIVE AnalyzeHintsFrom(_, _)
AnalyzeHintsFrom(acc, hints) ==
  IF hints = <<>> THEN acc
  ELSE LET sanitizedHint == sanitizeHint(Head(hints))
       IN  IF sanitizedHint = <<>>
             THEN AnalyzeHintsFrom(acc, Tail(hints))
             ELSE AnalyzeHintsFrom(
                    MergeHintDetections(acc, analyzeHint(sanitizedHint)),
                    Tail(hints))

\* ContextAnalyzer.analyzeContextHints
analyzeContextHints(contextHints) ==
  IF contextHints = <<>> THEN <<>>
  ELSE SortByConfidence(AnalyzeHintsFrom(<<>>, contextHints))

(***************************************************************************)
(* ConfidenceCalculator                                                    *)
(***************************************************************************)
\* The merge of the context detections into the map of mergeDetections.
RECURSIVE MergeContextDetections(_, _)
MergeContextDetections(acc, contextDetections) ==
  IF contextDetections = <<>> THEN acc
  ELSE LET c == Head(contextDetections)
           at == IndexOfManager(acc, c.manager)
           next ==
             IF at # 0
               THEN [acc EXCEPT
                       ![at].detection_reasons = @ \o c.detection_reasons,
                       ![at].confidence = Max(@, c.confidence)]
               ELSE Append(acc, c)
       IN  MergeContextDetections(next, Tail(contextDetections))

\* The map of mergeDetections after the pattern detections were set: a later
\* detection of the same manager replaces the earlier one in place.
RECURSIVE SetPatternDetections(_, _)
SetPatternDetections(acc, patternDetections) ==
  IF patternDetections = <<>> THEN acc
  ELSE LET d == Head(patternDetections)
           at == IndexOfManager(acc, d.manager)
           next == IF at # 0 THEN [acc EXCEPT ![at] = d] ELSE Append(acc, d)
       IN  SetPatternDetections(next, Tail(patternDetections))

\* ConfidenceCalculator.mergeDetections
mergeDetections(patternDetections, contextDetections) ==
  MergeContextDetections(SetPatternDetections(<<>>, patternDetections),
                         contextDetections)

\* The reason arrays of the two input lists while mergeDetections runs.  The
\* copy { ...detection } of a detection shares the detection_reasons array of
\* the detection copied: owner[manager] names the input detection whose array
\* the map entry of the manager holds, and a push on the entry writes there.
RECURSIVE PushContextReasons(_, _, _)
PushContextReasons(heap, contextDetections, j) ==
  IF j > Len(contextDetections) THEN heap
  ELSE LET manager == contextDetections[j].manager
           existing == heap.owner[manager]
           pushed == heap.context[j]
           next ==
             IF existing[1] = "pattern"
               THEN [heap EXCEPT !.pattern[existing[2]] = @ \o pushed]
             ELSE IF existing[1] = "context"
               THEN [heap EXCEPT !.context[existing[2]] = @ \o pushed]
             ELSE [heap EXCEPT !.owner[manager] = <<"context", j>>]
       IN  PushContextReasons(next, contextDetections, j + 1)

\* The two input lists as mergeDetections leaves them.
mergeDetectionsInputs(patternDetections, contextDetections) ==
  LET lastOf(manager) ==
        LET at == { i \in 1..Len(patternDetections) :
                      patternDetections[i].manager = manager }
        IN  IF at = {} THEN <<"none", 0>>
            ELSE <<"pattern", CHOOSE i \in at : \A k \in at : k <= i>>
      heap ==
        PushContextReasons(
          [pattern |-> [i \in 1..Len(patternDetections) |->
                          patternDetections[i].detection_reasons],
           context |-> [j \in 1..Len(contextDetections) |->
                          contextDetections[j].detection_reasons],
           owner |-> [manager \in PackageManagerSet |-> lastOf(manager)]],
          contextDetections, 1)
  IN  [patternDetections |->
         [i \in 1..Len(patternDetections) |->
            [patternDetections[i] EXCEPT
               !.detection_reasons = heap.pattern[i]]],
       contextDetections |->
         [j \in 1..Len(contextDetections) |->
            [contextDetections[j] EXCEPT
               !.detection_reasons = heap.context[j]]]]

\* The synthetic reason applyUserPreferences appends.
PreferenceReason == Reason("context_hint", 10, TRUE)

\* ConfidenceCalculator.applyUserPreferences
applyUserPreferences(detections, preferredManagers) ==
  IF preferredManagers = <<>> THEN detections
  ELSE [i \in 1..Len(detections) |->
          IF detections[i].manager \in Range(preferredManagers)
            THEN [detections[i] EXCEPT
                    !.detection_reasons = Append(@, PreferenceReason),
                    !.confidence = Min(95000, @ + 10000)]
            ELSE detections[i]]

\* reasons.reduce((sum, reason) => sum + reason.weight, 0) over the reasons
\* whose type is in types.
RECURSIVE WeightSum(_, _)
WeightSum(reasons, types) ==
  IF reasons = <<>> THEN 0
  ELSE (IF Head(reasons).type \in types THEN Head(reasons).weight ELSE 0)
       + WeightSum(Tail(reasons), types)

\* ConfidenceCalculator.calculateFinalConfidence
calculateFinalConfidence(detection) ==
  LET reasons == detection.detection_reasons
      exactMatchScore == Min(100, WeightSum(reasons, {"package_name_pattern"}))
      \* patternScore = exactMatchScore * 0.75, times the pattern weight
      patternPart ==
        IF exactMatchScore > 0
          THEN (exactMatchScore * 75 * WEIGHT_PACKAGE_NAME_PATTERN) \div 100
          ELSE 0
      contextScore ==
        Min(100, WeightSum(reasons,
                   {"context_hint", "file_pattern", "dependency_pattern"}))
      userPrefScore ==
        IF \E i \in 1..Len(reasons) :
             reasons[i].type = "context_hint" /\ reasons[i].userPreferred
          THEN 100 ELSE 0
      finalConfidence ==
        exactMatchScore * WEIGHT_EXACT_PACKAGE_NAME_MATCH
        + patternPart
        + contextScore * WEIGHT_CONTEXT_HINTS
        + userPrefScore * WEIGHT_USER_PREFERENCE
  IN  Min(95000, Max(10000, finalConfidence))

\* calculateOverallConfidence returning every merged detection, the
\* minimum_confidence filter left out.
calculateOverallConfidenceUnfiltered(patternDetections, contextDetections, preferredManagers) ==
  LET mergedDetections == mergeDetections(patternDetections, contextDetections)
      withPreferences == applyUserPreferences(mergedDetections, preferredManagers)
      finalDetections ==
        [i \in 1..Len(withPreferences) |->
           [withPreferences[i] EXCEPT
              !.confidence = calculateFinalConfidence(withPreferences[i])]]
  IN  SortByConfidence(finalDetections)

\* ConfidenceCalculator.calculateOverallConfidence
calculateOverallConfidence(patternDetections, contextDetections, preferredManagers) ==
  LET mergedDetections == mergeDetections(patternDetections, contextDetections)
      withPreferences == applyUserPreferences(mergedDetections, preferredManagers)
      finalDetections ==
        [i \in 1..Len(withPreferences) |->
           [withPreferences[i] EXCEPT
              !.confidence = calculateFinalConfidence(withPreferences[i])]]
  IN  SortByConfidence(SelectSeq(finalDetections,
        LAMBDA d : d.confidence >= MINIMUM_CONFIDENCE))

\* getConfidenceLevel with the thresholds compared strictly.
getConfidenceLevelStrict(confidence) ==
  IF confidence > HIGH_CONFIDENCE THEN "high"
  ELSE IF confidence > MEDIUM_CONFIDENCE THEN "medium"
  ELSE "low"

\* ConfidenceCalculator.getConfidenceLevel
getConfidenceLevel(confidence) ==
  IF confidence >= HIGH_CONFIDENCE THEN "high"
  ELSE IF confidence >= MEDIUM_CONFIDENCE THEN "medium"
  ELSE "low"

\* detections.map(d => d.manager)
ManagersOf(detections) == [i \in 1..Len(detections) |-> detections[i].manager]

\* ConfidenceCalculator.shouldUseParallelExecution
shouldUseParallelExecution(detections) ==
  IF detections = <<>>
    THEN [useParallel |-> FALSE, managers |-> <<>>, strategy |-> "single"]
  ELSE LET topDetection == detections[1]
           confidenceLevel == getConfidenceLevel(topDetection.confidence)
       IN  CASE confidenceLevel = "high" ->
                  [useParallel |-> FALSE,
                   managers |-> <<topDetection.manager>>,
                   strategy |-> "single"]
             [] confidenceLevel = "medium" ->
                  [useParallel |-> TRUE,
                   managers |-> ManagersOf(SubSeq(detections, 1,
                                  Min(MEDIUM_PARALLEL_COUNT, Len(detections)))),
                   strategy |-> "limited"]
             [] confidenceLevel = "low" ->
                  [useParallel |-> TRUE,
                   managers |-> ManagersOf(detections),
                   strategy |-> "all"]

(***************************************************************************)
(* Bounds of the model                                                     *)
(***************************************************************************)
\* The managers config/mcp-servers.json configures a backend server for.
ServerManagers == {"npm", "pip"}

\* Milliseconds the clock advances in one step, and the elapsed time after
\* which the clock stops.
TickMs == 8000

MaxElapsed == 8000

\* Longest detection list and largest number of reasons given to the pure
\* functions.
MaxDetections == 4

MaxReasons == 2

(***************************************************************************)
(* Inputs                                                                  *)
(***************************************************************************)
Tools == {"smart_package_search", "smart_package_readme", "smart_package_info"}

NAME_lodash == <<"l", "o", "d", "a", "s", "h">>

NAME_types_node == <<"@", "t", "y", "p", "e", "s", "/", "n", "o", "d", "e">>

NAME_symfony_console ==
  <<"s", "y", "m", "f", "o", "n", "y", "/", "c", "o", "n", "s", "o", "l", "e">>

NAME_script == <<"<", "S", "c", "r", "i", "p", "t", ">">>

\* The package names a request carries.
PackageNames ==
  { <<>>, <<"a">>, <<"~">>, <<"@">>, <<":">>, <<NUL>>,
    <<"a", "b">>, <<".", ".">>, <<"a", LF, "b">>,
    NAME_lodash, NAME_types_node, NAME_symfony_console, NAME_script }

HINT_react == <<"r", "e", "a", "c", "t">>

HINT_react_js == <<"u", "s", "e", "s", " ", "R", "e", "a", "c", "t", ".", "j", "s">>

HINT_blank == <<" ", "<", ">", " ">>

\* The context_hints a request carries.
ContextHintLists == { <<>>, <<HINT_react>>, <<HINT_blank, HINT_react_js>> }

\* The preferred_managers a request carries.
PreferredManagerLists == { <<>>, <<"npm">> }

\* What a backend returns: a falsy content (null, undefined, an empty string)
\* or package data, of which the number of present checklist fields and the
\* presence of a non-empty dependency map and version list are kept.
Data(falsy, fields, dependencies, versions) ==
  [falsy |-> falsy, fields |-> fields,
   dependencies |-> dependencies, versions |-> versions]

Undefined == Data(TRUE, 0, FALSE, FALSE)

Payloads ==
  { Undefined, Data(FALSE, 0, FALSE, FALSE), Data(FALSE, 8, TRUE, TRUE) }

(***************************************************************************)
(* State                                                                   *)
(***************************************************************************)
VARIABLES
  connection_status,  \* ManagerRegistry: mcpServers[m].connection_status
  clients,            \* MCPClientManagerImpl.clients (its keys)
  connectionStatus,   \* MCPClientManagerImpl.connectionStatus
  pc,                 \* position of the request: idle, calling, done
  params,             \* the parameters of the request in progress
  detectedManagers,   \* execute: detectedManagers
  executionStrategy,  \* execute: executionStrategy
  connectedManagers,  \* executeToolParallel: connectedManagers
  calls,              \* the backend call of each manager: state and content
  elapsed,            \* Date.now() - startTime
  issued,             \* managers whose client.callTool this request invoked
  results,            \* execute: results
  response,           \* the value execute returned
  fnIn,               \* input of the pure function under check
  fnOut,              \* its output
  retry,              \* executeWithRetry: the state of its loop
  cache,              \* MemoryCache.cache: the entries in insertion order
  now,                \* Date.now() as the cache reads it
  pending,            \* getOrCompute of each caller: position, key, value
  lastCall,           \* the last call of set, get, has, delete or clear
  lifecycle           \* one manager's connects in flight, clients and timers

vars ==
  <<connection_status, clients, connectionStatus, pc, params,
    detectedManagers, executionStrategy, connectedManagers, calls, elapsed,
    issued, results, response, fnIn, fnOut, retry, cache, now, pending,
    lastCall, lifecycle>>

registryVars == <<connection_status>>

clientVars == <<clients, connectionStatus>>

requestVars ==
  <<pc, params, detectedManagers, executionStrategy, connectedManagers,
    calls, elapsed, issued, results, response>>

cacheVars == <<cache, now, pending, lastCall>>

fnVars == <<fnIn, fnOut, retry, cacheVars, lifecycle>>

(***************************************************************************)
(* The components checked on their own, at rest                            *)
(***************************************************************************)
\* The callers of getOrCompute that can be in flight at once.
Callers == {1, 2}

\* getOrCompute of a caller: not running, or awaiting computeFn for a key.
NotPending == [st |-> "idle", key |-> "none"]

\* A call and what it returned; for set, which returns nothing, the number of
\* entries its cleanup removed for the size.
Call(op, key, result) == [op |-> op, key |-> key, result |-> result]

NoCall == Call("none", "none", "undefined")

\* The connection of one manager followed through its awaits.  A client is
\* named by the number of the connect that created it, and so is the timer
\* that connect starts; 0 is no client, no timer, no call in flight.
NoLifecycle ==
  [connects |-> <<0, 0>>, created |-> 0, open |-> {}, client |-> 0,
   timers |-> {}, interval |-> 0, closing |-> 0, backendUp |-> TRUE,
   last |-> "none"]

CacheAtRest ==
  /\ cache = <<>>
  /\ now = 0
  /\ pending = [c \in Callers |-> NotPending]
  /\ lastCall = NoCall

(***************************************************************************)
(* ManagerRegistry                                                         *)
(***************************************************************************)
\* managerInfo.mcp_server_available, as updateAvailability sets it.
mcp_server_available(manager) == manager \in ServerManagers

\* ManagerRegistry.isManagerAvailable
isManagerAvailable(manager) ==
  /\ mcp_server_available(manager)
  /\ connection_status[manager] = "connected"

\* ManagerRegistry.updateConnectionStatus
updateConnectionStatus(manager, status) ==
  /\ manager \in ServerManagers
  /\ status \in {"connected", "disconnected", "error"}
  /\ connection_status' = [connection_status EXCEPT ![manager] = status]
  /\ UNCHANGED <<clientVars, requestVars, fnVars>>

(***************************************************************************)
(* MCPClientManagerImpl                                                    *)
(***************************************************************************)
\* MCPClientManagerImpl.isConnected
isConnected(manager) ==
  connectionStatus[manager] = TRUE /\ manager \in clients

\* MCPClientManagerImpl.connect, the transport connecting.
connect(manager) ==
  /\ manager \in ServerManagers
  /\ ~isConnected(manager)
  /\ clients' = clients \cup {manager}
  /\ connectionStatus' = [connectionStatus EXCEPT ![manager] = TRUE]
  /\ UNCHANGED <<registryVars, requestVars, fnVars>>

\* MCPClientManagerImpl.connect, the transport failing to connect.
connectFailed(manager) ==
  /\ manager \in ServerManagers
  /\ ~isConnected(manager)
  /\ connectionStatus' = [connectionStatus EXCEPT ![manager] = FALSE]
  /\ UNCHANGED <<clients, registryVars, requestVars, fnVars>>

\* MCPClientManagerImpl.disconnect
disconnect(manager) ==
  /\ manager \in ServerManagers
  /\ clients' = clients \ {manager}
  /\ connectionStatus' = [connectionStatus EXCEPT ![manager] = FALSE]
  /\ UNCHANGED <<registryVars, requestVars, fnVars>>

\* The health-check timer of startHealthCheck firing with listTools failing.
healthCheckFailed(manager) ==
  /\ manager \in clients
  /\ connectionStatus' = [connectionStatus EXCEPT ![manager] = FALSE]
  /\ UNCHANGED <<clients, registryVars, requestVars, fnVars>>

(***************************************************************************)
(* ToolProxy                                                               *)
(***************************************************************************)
\* The default timeouts of executeToolSingle and executeToolParallel.
SINGLE_TIMEOUT_MS == 5000

PARALLEL_TIMEOUT_MS == 8000

\* A PackageManagerResult.
Result(manager, success, data, error, response_time) ==
  [manager |-> manager, success |-> success, data |-> data,
   error |-> error, response_time |-> response_time]

\* ToolProxy.executeToolSingle, once the call it awaited has settled.
executeToolSingle(manager) ==
  IF manager \notin Range(connectedManagers)
    THEN Result(manager, FALSE, Undefined, "Not connected", elapsed)
  ELSE IF calls[manager].st = "resolved"
    THEN Result(manager, TRUE, calls[manager].data, "none", elapsed)
  ELSE \* the catch block: a rejection or a timeout becomes a failed result
       Result(manager, FALSE, Undefined, calls[manager].st, elapsed)

\* A wait that ends with the first fulfilled call, as Promise.any would.
firstFulfilled(managers) ==
  \/ \A m \in managers : calls[m].st # "pending"
  \/ \E m \in managers : calls[m].st = "resolved"

\* Promise.allSettled over the calls of the managers: every one has settled.
allSettled(managers) == \A m \in managers : calls[m].st # "pending"

\* The result map of a Promise.all over the calls: one call that does not
\* resolve leaves the map empty.
callToolParallelFailFast(managers) ==
  IF \A i \in 1..Len(managers) : calls[managers[i]].st = "resolved"
    THEN SelectSeq(managers, LAMBDA m : ~calls[m].data.falsy)
    ELSE <<>>

\* The result map filled as the calls settle: the managers in the order of
\* settlement.
callToolParallelByCompletion(managers) ==
  SelectSeq(SortDescending(managers,
              [i \in 1..Len(managers) |-> 0 - calls[managers[i]].order]),
            LAMBDA m : calls[m].st = "resolved" /\ ~calls[m].data.falsy)

\* MCPClientManagerImpl.callToolParallelWithTimeout: the managers of the
\* result map, in insertion order.  A call is entered when it resolved with
\* a truthy result.
callToolParallelWithTimeout(managers) ==
  SelectSeq(managers,
    LAMBDA m : calls[m].st = "resolved" /\ ~calls[m].data.falsy)

\* executeToolParallel without the loop that reports the managers that were
\* not connected.
executeToolParallelConnectedOnly(managers) ==
  LET resultMap == callToolParallelWithTimeout(connectedManagers)
      missing == SelectSeq(connectedManagers,
                   LAMBDA m : m \notin Range(resultMap))
  IN  [i \in 1..Len(resultMap) |->
         Result(resultMap[i], TRUE, calls[resultMap[i]].data, "none", elapsed)]
      \o [i \in 1..Len(missing) |->
            Result(missing[i], FALSE, Undefined,
                   "Tool call failed or timed out", elapsed)]

\* ToolProxy.executeToolParallel, once the calls it awaited have settled.
executeToolParallel(managers) ==
  IF connectedManagers = <<>>
    THEN [i \in 1..Len(managers) |->
            Result(managers[i], FALSE, Undefined, "Not connected", elapsed)]
  ELSE LET resultMap == callToolParallelWithTimeout(connectedManagers)
           succeeded ==
             [i \in 1..Len(resultMap) |->
                Result(resultMap[i], TRUE, calls[resultMap[i]].data,
                       "none", elapsed)]
           missing == SelectSeq(connectedManagers,
                        LAMBDA m : m \notin Range(resultMap))
           failed ==
             [i \in 1..Len(missing) |->
                Result(missing[i], FALSE, Undefined,
                       "Tool call failed or timed out", elapsed)]
           disconnectedManagers ==
             SelectSeq(managers, LAMBDA m : m \notin Range(connectedManagers))
           notConnected ==
             [i \in 1..Len(disconnectedManagers) |->
                Result(disconnectedManagers[i], FALSE, Undefined,
                       "Not connected", elapsed)]
       IN  succeeded \o failed \o notConnected

(***************************************************************************)
(* The smart_package_* tools                                               *)
(***************************************************************************)
\* An entry of the errors array.
Error(manager, error_type) == [manager |-> manager, error_type |-> error_type]

\* An OrchestrationResponse.  primary is the package_manager of the data,
\* "none" when the response carries no primary result.
Response(success, errors, attempted, succeeded, primary, alternatives) ==
  [success |-> success, errors |-> errors,
   managers_attempted |-> attempted, managers_succeeded |-> succeeded,
   primary |-> primary, alternatives |-> alternatives]

NoResponse == Response(FALSE, <<>>, <<>>, <<>>, "none", <<>>)

\* The early returns of execute.
FailureResponse(error_type) ==
  Response(FALSE, <<Error("none", error_type)>>, <<>>, <<>>, "none", <<>>)

\* detectedManagers.find(d => d.manager === manager)?.confidence || 0
ConfidenceOf(detections, manager) ==
  LET at == IndexOfManager(detections, manager)
  IN  IF at = 0 THEN 0 ELSE detections[at].confidence

\* SmartPackageInfoTool.calculateCompletenessScore, in sixteenths.
calculateCompletenessScore(packageData) ==
  IF packageData.falsy THEN 0
  ELSE Min(16, 2 * packageData.fields
               + (IF packageData.dependencies THEN 1 ELSE 0)
               + (IF packageData.versions THEN 1 ELSE 0))

\* The response time after which the speed score is zero.
MAX_TIME_MS == 10000

\* SmartPackageInfoTool.calculateSpeedScore, in ten-thousandths.
calculateSpeedScore(responseTime) == Max(0, MAX_TIME_MS - responseTime)

\* The score of selectBestResult: confidence * 0.5 + completeness * 0.3
\* + speedScore * 0.2, in ten-millionths.
ResultScore(result, detections) ==
  50 * ConfidenceOf(detections, result.manager)
  + 187500 * calculateCompletenessScore(result.data)
  + 200 * calculateSpeedScore(result.response_time)

\* SmartPackageInfoTool.selectBestResult: the results by descending score.
InfoSelectBestResult(successfulResults, detections) ==
  SortDescending(successfulResults,
    [i \in 1..Len(successfulResults) |->
       ResultScore(successfulResults[i], detections)])

\* SmartPackageReadmeTool.selectBestResult: the results sorted in place by
\* descending confidence of their manager.
ReadmeSelectBestResult(successfulResults, detections) ==
  SortDescending(successfulResults,
    [i \in 1..Len(successfulResults) |->
       ConfidenceOf(detections, successfulResults[i].manager)])

\* The entries of errors taken from the results that succeeded.
SucceededErrors(toolResults) ==
  LET succeededResults == SelectSeq(toolResults, LAMBDA r : r.success)
  IN  [i \in 1..Len(succeededResults) |->
         Error(succeededResults[i].manager, "MCP_SERVER_UNAVAILABLE")]

\* results.filter(r => !r.success) turned into the entries of errors.
FailedErrors(toolResults) ==
  LET failedResults == SelectSeq(toolResults, LAMBDA r : ~r.success)
  IN  [i \in 1..Len(failedResults) |->
         Error(failedResults[i].manager, "MCP_SERVER_UNAVAILABLE")]

\* successfulResults taken whole, the best result left in.
OtherResultsUnfiltered(successfulResults, bestResult) == successfulResults

\* successfulResults.filter(r => r.manager !== bestResult.manager)
OtherResults(successfulResults, bestResult) ==
  SelectSeq(successfulResults, LAMBDA r : r.manager # bestResult.manager)

\* generateAlternativeResults: one alternative for each of the other results,
\* of which the manager is kept.
generateAlternativeResults(otherResults) ==
  [i \in 1..Len(otherResults) |-> otherResults[i].manager]

\* Steps 5 and 6 of execute: the response built from the tool results.
BuildResponse(tool, toolResults, detections, attempted) ==
  LET successfulResults == SelectSeq(toolResults, LAMBDA r : r.success)
      managers_succeeded ==
        [i \in 1..Len(successfulResults) |-> successfulResults[i].manager]
      errors == FailedErrors(toolResults)
      sorted ==
        IF tool = "smart_package_info"
          THEN InfoSelectBestResult(successfulResults, detections)
          ELSE ReadmeSelectBestResult(successfulResults, detections)
      bestResult == sorted[1]
      \* the readme tool sorted successfulResults itself; the info tool
      \* sorted a copy
      remaining ==
        IF tool = "smart_package_info" THEN successfulResults ELSE sorted
      alternativeResults ==
        generateAlternativeResults(OtherResults(remaining, bestResult))
  IN  IF tool = "smart_package_search"
        THEN Response(Len(successfulResults) > 0, errors, attempted,
                      managers_succeeded, "none", <<>>)
      ELSE IF successfulResults = <<>>
        THEN Response(FALSE,
                      IF Len(errors) > 0 THEN errors
                      ELSE <<Error("none", "ALL_MANAGERS_FAILED")>>,
                      attempted, managers_succeeded, "none", <<>>)
      ELSE Response(TRUE, errors, attempted, managers_succeeded,
                    bestResult.manager, alternativeResults)

\* detectedManagers with the availability of each manager filled in.
WithAvailability(detections) ==
  [i \in 1..Len(detections) |->
     [detections[i] EXCEPT
        !.available = isManagerAvailable(detections[i].manager)]]

\* detectedManagers taken whole, the availability filter left out.
AvailableDetectionsUnfiltered(detections) == detections

\* detectedManagers.filter(d => d.available)
AvailableDetections(detections) ==
  SelectSeq(detections, LAMBDA d : d.available)

\* The managers of a strategy that a call is started for: those connected
\* when the proxy is entered (the single strategy looks at its one manager).
ConnectedCandidates(strategy) ==
  SelectSeq(IF strategy.useParallel THEN strategy.managers
            ELSE SubSeq(strategy.managers, 1, 1),
            LAMBDA m : isConnected(m))

\* The call of a manager: its state, the content it resolved with, and its
\* place in the order in which the calls of the request settled.
NoCalls ==
  [m \in PackageManagerSet |->
     [st |-> "none", data |-> Undefined, order |-> 0]]

\* executeWithRetry not running.
NoRetry ==
  [pc |-> "idle", maxRetries |-> 0, attempt |-> 0, calls |-> 0,
   delayMs |-> 0, waits |-> <<>>, lastError |-> "none",
   result |-> [success |-> FALSE, error |-> "none"]]

NoStrategy == [useParallel |-> FALSE, managers |-> <<>>, strategy |-> "single"]

NoParams ==
  [tool |-> "none", package_name |-> <<>>, context_hints |-> <<>>,
   preferred_managers |-> <<>>]

\* execute returning before any dispatch.
ReturnEarly(error_type, detections) ==
  /\ pc' = "done"
  /\ response' = FailureResponse(error_type)
  /\ detectedManagers' = detections
  /\ UNCHANGED <<executionStrategy, connectedManagers, calls, elapsed,
                 issued, results>>

\* execute of the three tools, up to the await of the tool proxy.
execute(tool, package_name, context_hints, preferred_managers) ==
  /\ pc = "idle"
  /\ params' = [tool |-> tool, package_name |-> package_name,
                context_hints |-> context_hints,
                preferred_managers |-> preferred_managers]
  /\ LET detected ==
           WithAvailability(
             calculateOverallConfidence(detectByPackageName(package_name),
                                        analyzeContextHints(context_hints),
                                        preferred_managers))
         availableDetections == AvailableDetections(detected)
         strategy == shouldUseParallelExecution(availableDetections)
         started == ConnectedCandidates(strategy)
     IN  IF ~validatePackageName(package_name)
           THEN ReturnEarly("INVALID_PACKAGE_NAME", <<>>)
         ELSE IF detected = <<>>
           THEN ReturnEarly("DETECTION_FAILED", <<>>)
         ELSE IF availableDetections = <<>>
           THEN ReturnEarly("MCP_SERVER_UNAVAILABLE", detected)
         ELSE /\ pc' = "calling"
              /\ detectedManagers' = detected
              /\ executionStrategy' = strategy
              /\ connectedManagers' = started
              /\ calls' = [m \in PackageManagerSet |->
                             IF m \in Range(started)
                               THEN [st |-> "pending", data |-> Undefined,
                                     order |-> 0]
                               ELSE NoCalls[m]]
              /\ issued' = Range(started)
              /\ elapsed' = 0
              /\ UNCHANGED <<results, response>>
  /\ UNCHANGED <<registryVars, clientVars, fnVars>>

\* The timeout of the calls of the request in progress.
TimeoutMs ==
  IF executionStrategy.useParallel THEN PARALLEL_TIMEOUT_MS
  ELSE SINGLE_TIMEOUT_MS

\* The place a call settling now takes in the order of settlement.
NextInOrder ==
  Cardinality({m \in issued : calls[m].st # "pending"}) + 1

\* client.callTool of a manager resolving with a content.
callResolved(manager, data) ==
  /\ pc = "calling"
  /\ calls[manager].st = "pending"
  /\ elapsed < TimeoutMs
  /\ calls' = [calls EXCEPT ![manager] =
                  [st |-> "resolved", data |-> data, order |-> NextInOrder]]
  /\ UNCHANGED <<pc, params, detectedManagers, executionStrategy,
                 connectedManagers, elapsed, issued, results, response,
                 registryVars, clientVars, fnVars>>

\* client.callTool of a manager rejecting; callTool marks the manager
\* disconnected when shouldReconnectOnError recognises the error.
callRejected(manager, reconnectError) ==
  /\ pc = "calling"
  /\ calls[manager].st = "pending"
  /\ elapsed < TimeoutMs
  /\ calls' = [calls EXCEPT ![manager].st = "rejected",
                             ![manager].order = NextInOrder]
  /\ connectionStatus' =
       IF reconnectError THEN [connectionStatus EXCEPT ![manager] = FALSE]
       ELSE connectionStatus
  /\ UNCHANGED <<pc, params, detectedManagers, executionStrategy,
                 connectedManagers, elapsed, issued, results, response,
                 clients, registryVars, fnVars>>

\* The timer of callToolWithTimeout firing before the call settled.
callTimedOut(manager) ==
  /\ pc = "calling"
  /\ calls[manager].st = "pending"
  /\ elapsed >= TimeoutMs
  /\ calls' = [calls EXCEPT ![manager].st = "timeout",
                             ![manager].order = NextInOrder]
  /\ UNCHANGED <<pc, params, detectedManagers, executionStrategy,
                 connectedManagers, elapsed, issued, results, response,
                 registryVars, clientVars, fnVars>>

\* Time passing while calls are pending; a due timer fires first.
Tick ==
  /\ pc = "calling"
  /\ \E m \in issued : calls[m].st = "pending"
  /\ elapsed < TimeoutMs
  /\ elapsed < MaxElapsed
  /\ elapsed' = elapsed + TickMs
  /\ UNCHANGED <<pc, params, detectedManagers, executionStrategy,
                 connectedManagers, calls, issued, results, response,
                 registryVars, clientVars, fnVars>>

\* The results the tool proxy hands back to execute.
ToolResults ==
  IF executionStrategy.useParallel
    THEN executeToolParallel(executionStrategy.managers)
    ELSE <<executeToolSingle(executionStrategy.managers[1])>>

\* execute from the return of the tool proxy to its own return.
executeReturn ==
  /\ pc = "calling"
  /\ allSettled(issued)
  /\ results' = ToolResults
  /\ response' = BuildResponse(params.tool, ToolResults, detectedManagers,
                               executionStrategy.managers)
  /\ pc' = "done"
  /\ UNCHANGED <<params, detectedManagers, executionStrategy,
                 connectedManagers, calls, elapsed, issued,
                 registryVars, clientVars, fnVars>>

\* The caller taking the response; the server is ready for the next request.
nextRequest ==
  /\ pc = "done"
  /\ pc' = "idle"
  /\ params' = NoParams
  /\ detectedManagers' = <<>>
  /\ executionStrategy' = NoStrategy
  /\ connectedManagers' = <<>>
  /\ calls' = NoCalls
  /\ elapsed' = 0
  /\ issued' = {}
  /\ results' = <<>>
  /\ response' = NoResponse
  /\ UNCHANGED <<registryVars, clientVars, fnVars>>

Init ==
  /\ connection_status = [m \in PackageManagerSet |-> "disconnected"]
  /\ clients = {}
  /\ connectionStatus = [m \in PackageManagerSet |-> FALSE]
  /\ pc = "idle"
  /\ params = NoParams
  /\ detectedManagers = <<>>
  /\ executionStrategy = NoStrategy
  /\ connectedManagers = <<>>
  /\ calls = NoCalls
  /\ elapsed = 0
  /\ issued = {}
  /\ results = <<>>
  /\ response = NoResponse
  /\ fnIn = <<>>
  /\ fnOut = <<>>
  /\ retry = NoRetry
  /\ CacheAtRest
  /\ lifecycle = NoLifecycle

Next ==
  \/ \E m \in ServerManagers, s \in {"connected", "disconnected"} :
       updateConnectionStatus(m, s)
  \/ \E m \in ServerManagers : connect(m)
  \/ \E m \in ServerManagers : connectFailed(m)
  \/ \E m \in ServerManagers : disconnect(m)
  \/ \E m \in ServerManagers : healthCheckFailed(m)
  \/ \E tool \in Tools, name \in PackageNames, hints \in ContextHintLists,
        preferred \in PreferredManagerLists :
       execute(tool, name, hints, preferred)
  \/ \E m \in PackageManagerSet, data \in Payloads : callResolved(m, data)
  \/ \E m \in PackageManagerSet, reconnectError \in BOOLEAN :
       callRejected(m, reconnectError)
  \/ \E m \in PackageManagerSet : callTimedOut(m)
  \/ Tick
  \/ executeReturn
  \/ nextRequest

Spec == Init /\ [][Next]_vars

(***************************************************************************)
(* The strategy selector on its own                                        *)
(***************************************************************************)
\* The request and the connections at rest.
AtRest ==
  /\ connection_status = [m \in PackageManagerSet |-> "disconnected"]
  /\ clients = {}
  /\ connectionStatus = [m \in PackageManagerSet |-> FALSE]
  /\ pc = "idle"
  /\ params = NoParams
  /\ detectedManagers = <<>>
  /\ executionStrategy = NoStrategy
  /\ connectedManagers = <<>>
  /\ calls = NoCalls
  /\ elapsed = 0
  /\ issued = {}
  /\ results = <<>>
  /\ response = NoResponse
  /\ retry = NoRetry
  /\ CacheAtRest
  /\ lifecycle = NoLifecycle

\* Confidences on both sides of the thresholds and on them.
SelectorConfidences == {30000, 59999, 60000, 79999, 80000, 95000}

\* The managers of a detection list, by position.
ManagerOrders ==
  { PackageManagers,
    [i \in 1..Len(PackageManagers) |->
       PackageManagers[Len(PackageManagers) + 1 - i]] }

\* The detection lists of a length, sorted by non-increasing confidence.
SortedDetectionLists(n) ==
  { [i \in 1..n |-> Detection(order[i], confidences[i], <<>>)] :
      order \in ManagerOrders,
      confidences \in
        { c \in [1..n -> SelectorConfidences] :
            \A i \in 1..(n - 1) : c[i] >= c[i + 1] } }

InitSelector ==
  /\ AtRest
  /\ fnIn \in UNION { SortedDetectionLists(n) : n \in 0..MaxDetections }
  /\ fnOut = <<>>

selectStrategy ==
  /\ fnOut = <<>>
  /\ fnOut' = <<shouldUseParallelExecution(fnIn)>>
  /\ UNCHANGED <<registryVars, clientVars, requestVars, fnIn, retry,
                 cacheVars, lifecycle>>

NextSelector == selectStrategy

SpecSelector == InitSelector /\ [][NextSelector]_vars

(***************************************************************************)
(* The confidence calculator on its own                                    *)
(***************************************************************************)
\* Reason weights in hundredths: negative, small, and above one.
ReasonWeights == {-50, 30, 150}

CalculatorReasons ==
  { Reason(type, weight, FALSE) :
      type \in {"package_name_pattern", "context_hint"},
      weight \in ReasonWeights }

ReasonLists(n) == UNION { [1..k -> CalculatorReasons] : k \in 0..n }

\* No pattern detection, or one of npm with up to MaxReasons reasons.
CalculatorPatternDetections ==
  { <<>> } \cup
  { <<Detection("npm", 70000, reasons)>> : reasons \in ReasonLists(MaxReasons) }

\* No context detection, or one of npm or of pip with at most one reason.
CalculatorContextDetections ==
  { <<>> } \cup
  { <<Detection(manager, 50000, reasons)>> :
      manager \in {"npm", "pip"}, reasons \in ReasonLists(1) }

InitConfidence ==
  /\ AtRest
  /\ fnIn \in [patternDetections : CalculatorPatternDetections,
               contextDetections : CalculatorContextDetections,
               preferredManagers : PreferredManagerLists]
  /\ fnOut = <<>>

\* calculateOverallConfidence called with the lists of fnIn: what it returns,
\* and the two lists as the call leaves them.
aggregateConfidence ==
  /\ fnOut = <<>>
  /\ fnOut' = <<calculateOverallConfidence(fnIn.patternDetections,
                                           fnIn.contextDetections,
                                           fnIn.preferredManagers),
                mergeDetectionsInputs(fnIn.patternDetections,
                                      fnIn.contextDetections)>>
  /\ UNCHANGED <<registryVars, clientVars, requestVars, fnIn, retry,
                 cacheVars, lifecycle>>

NextConfidence == aggregateConfidence

SpecConfidence == InitConfidence /\ [][NextConfidence]_vars

(***************************************************************************)
(* Properties                                                              *)
(***************************************************************************)
\* The error_type of a response that carries exactly one error of no manager.
StageError ==
  IF Len(response.errors) = 1 /\ response.errors[1].manager = "none"
    THEN response.errors[1].error_type
    ELSE "none"

\* A request that ended before dispatch with the error of a stage.
EndedAtStage(error_type) ==
  /\ ~response.success
  /\ response.managers_attempted = <<>>
  /\ StageError = error_type
  /\ issued = {}

SafeChars ==
  LowerLetters \cup UpperLetters \cup Digits \cup {"@", "/", ".", "_", "-", "~"}

\* A name of 1 to 214 safe characters without a '..' substring; the safe
\* characters exclude those of the script-injection patterns and NUL.
SafeName(name) ==
  /\ Len(name) \in 1..214
  /\ \A i \in 1..Len(name) : name[i] \in SafeChars
  /\ ~Includes(name, <<".", ".">>)

C2_ConnectedIsAvailable ==
  \A m \in ServerManagers : isConnected(m) => isManagerAvailable(m)

\* C3: for a non-empty detection list sorted by confidence, the selector
\* returns single with the top manager alone and parallel false when the top
\* confidence is at least 0.8; limited with the first min(3, n) managers and
\* parallel true when it is at least 0.6 and below 0.8; all with every manager
\* in list order and parallel true otherwise.
C3_StrategySelector ==
  (fnOut # <<>> /\ fnIn # <<>>) =>
    LET top == fnIn[1].confidence
        plan == fnOut[1]
        firstManagers(k) == [i \in 1..k |-> fnIn[i].manager]
    IN  /\ top >= 80000 =>
             /\ plan.strategy = "single"
             /\ plan.managers = firstManagers(1)
             /\ plan.useParallel = FALSE
        /\ (top >= 60000 /\ top < 80000) =>
             /\ plan.strategy = "limited"
             /\ plan.managers =
                  firstManagers(IF Len(fnIn) < 3 THEN Len(fnIn) ELSE 3)
             /\ plan.useParallel = TRUE
        /\ top < 60000 =>
             /\ plan.strategy = "all"
             /\ plan.managers = firstManagers(Len(fnIn))
             /\ plan.useParallel = TRUE

\* A list of four detections of medium confidence cut to its first three.
C3_Witness ==
  /\ fnOut # <<>>
  /\ Len(fnIn) = 4
  /\ fnIn[1].confidence = 60000
  /\ fnOut[1].strategy = "limited"
  /\ Len(fnOut[1].managers) = 3

\* The detections of the parameters of the request in progress.
DetectedFor(request) ==
  calculateOverallConfidence(detectByPackageName(request.package_name),
                             analyzeContextHints(request.context_hints),
                             request.preferred_managers)

\* C4: no backend call is issued unless the name passed validation, an
\* ecosystem cleared the minimum confidence and a detected manager is
\* available; otherwise the request ends with success false, no manager
\* attempted and the error of the first failing stage, in the order
\* INVALID_PACKAGE_NAME, DETECTION_FAILED, MCP_SERVER_UNAVAILABLE; a plan that
\* is dispatched has a candidate.
C4_StagesBeforeDispatch ==
  [][/\ (pc = "idle" /\ pc' # "idle") =>
          LET valid == validatePackageName(params'.package_name)
              detected == DetectedFor(params')
              available ==
                \E i \in 1..Len(detected) :
                  isManagerAvailable(detected[i].manager)
          IN  /\ ~valid =>
                   pc' = "done" /\ EndedAtStage("INVALID_PACKAGE_NAME")'
              /\ (valid /\ detected = <<>>) =>
                   pc' = "done" /\ EndedAtStage("DETECTION_FAILED")'
              /\ (valid /\ detected # <<>> /\ ~available) =>
                   pc' = "done" /\ EndedAtStage("MCP_SERVER_UNAVAILABLE")'
              /\ (valid /\ detected # <<>> /\ available) =>
                   /\ pc' = "calling"
                   /\ executionStrategy'.managers # <<>>
                   /\ issued' \subseteq Range(executionStrategy'.managers)
     /\ pc # "idle" => issued' \subseteq issued]_vars

\* A valid name whose detections are all unavailable ends at the third stage.
C4_Witness ==
  /\ pc = "done"
  /\ validatePackageName(params.package_name)
  /\ Len(detectedManagers) >= 2
  /\ EndedAtStage("MCP_SERVER_UNAVAILABLE")

\* C5: every detection calculateOverallConfidence returns has a confidence
\* within [0.1, 0.95] and none has a confidence below the minimum 0.3.
C5_ConfidenceBounds ==
  fnOut # <<>> =>
    \A i \in 1..Len(fnOut[1]) :
      /\ fnOut[1][i].confidence >= 10000
      /\ fnOut[1][i].confidence <= 95000
      /\ fnOut[1][i].confidence >= 30000

\* Of two merged managers one is returned, the other fell below the minimum.
C5_Witness ==
  /\ fnOut # <<>>
  /\ fnIn.patternDetections # <<>>
  /\ fnIn.contextDetections # <<>>
  /\ fnIn.contextDetections[1].manager = "pip"
  /\ Len(fnIn.contextDetections[1].detection_reasons) = 1
  /\ Len(fnOut[1]) = 1
  /\ fnOut[1][1].manager = "npm"
  /\ fnOut[1][1].confidence > 90000

\* The results of the request that succeeded, in the order of results.
SuccessfulResults == SelectSeq(results, LAMBDA r : r.success)

\* C6: in smart_package_info and smart_package_readme the primary result is
\* a successful result of maximum score 0.5*confidence + 0.3*completeness
\* + 0.2*speedScore, the earliest in list order among those of equal score.
C6_PrimaryHasMaximumScore ==
  (/\ pc = "done"
   /\ params.tool \in {"smart_package_info", "smart_package_readme"}
   /\ response.primary # "none") =>
    \E i \in 1..Len(SuccessfulResults) :
      /\ SuccessfulResults[i].manager = response.primary
      /\ \A j \in 1..Len(SuccessfulResults) :
           /\ ResultScore(SuccessfulResults[j], detectedManagers)
                <= ResultScore(SuccessfulResults[i], detectedManagers)
           /\ j < i =>
                ResultScore(SuccessfulResults[j], detectedManagers)
                  < ResultScore(SuccessfulResults[i], detectedManagers)

\* The number of results, and of errors, that carry a manager.
ResultCount(manager) ==
  Cardinality({i \in 1..Len(results) : results[i].manager = manager})

ErrorCount(manager) ==
  Cardinality({i \in 1..Len(response.errors) :
                 response.errors[i].manager = manager})

\* C7: for a dispatched request each manager of managers_attempted has
\* exactly one result carrying its id; managers_succeeded is the set of the
\* attempted managers whose result succeeded, and every other attempted
\* manager has exactly one entry in errors naming it.
C7_AttemptedManagersAccounted ==
  (pc = "done" /\ response.managers_attempted # <<>>) =>
    LET attempted == Range(response.managers_attempted)
        succeeded == Range(response.managers_succeeded)
    IN  /\ \A m \in attempted : ResultCount(m) = 1
        /\ succeeded =
             {m \in attempted :
                \E i \in 1..Len(results) :
                  results[i].manager = m /\ results[i].success}
        /\ Len(response.managers_succeeded) = Cardinality(succeeded)
        /\ \A m \in attempted \ succeeded : ErrorCount(m) = 1
        /\ \A m \in succeeded : ErrorCount(m) = 0

\* Two managers attempted, one of them not connected, the other succeeded.
C7_Witness ==
  /\ pc = "done"
  /\ Len(response.managers_attempted) = 2
  /\ Cardinality(issued) = 1
  /\ Len(response.managers_succeeded) = 1
  /\ Len(response.errors) = 1

Settled == {"resolved", "rejected", "timeout"}

\* C8: in parallel mode a call is started for each connected candidate
\* before any settles, no started call is cancelled, and the response is
\* produced only after every started call has settled.
C8_ParallelWaitsForAll ==
  [][/\ (pc = "idle" /\ pc' = "calling" /\ executionStrategy'.useParallel) =>
          /\ issued' = {m \in Range(executionStrategy'.managers) :
                          isConnected(m)}
          /\ \A m \in issued' : calls'[m].st = "pending"
     /\ (pc = "calling" /\ executionStrategy.useParallel) =>
          /\ pc' \in {"calling", "done"}
          /\ issued' = issued
          /\ \A m \in issued :
               \/ calls'[m] = calls[m]
               \/ calls[m].st = "pending" /\ calls'[m].st \in Settled
          /\ pc' = "done" => \A m \in issued : calls[m].st \in Settled]_vars

\* A parallel request answered after one call resolved with data and its
\* sibling ran into the timeout.
C8_Witness ==
  /\ pc = "done"
  /\ executionStrategy.useParallel
  /\ Cardinality(issued) = 2
  /\ \E m \in issued : calls[m].st = "resolved" /\ ~calls[m].data.falsy
  /\ \E m \in issued : calls[m].st = "timeout"
  /\ response.success

\* The result of a manager among the results of the request.
ResultOf(manager) ==
  results[CHOOSE i \in 1..Len(results) : results[i].manager = manager]

\* C9: in a parallel dispatch a call that timed out or rejected gives a
\* failed result for its manager alone and an entry in errors; a sibling that
\* resolved with data keeps its successful result and its data; the response
\* succeeds exactly when a result succeeded.
C9_ParallelFailuresIsolated ==
  (pc = "done" /\ executionStrategy.useParallel) =>
    /\ \A m \in issued :
         /\ ResultCount(m) = 1
         /\ calls[m].st \in {"rejected", "timeout"} =>
              /\ ~ResultOf(m).success
              /\ ErrorCount(m) = 1
         /\ (calls[m].st = "resolved" /\ ~calls[m].data.falsy) =>
              /\ ResultOf(m).success
              /\ ResultOf(m).data = calls[m].data
              /\ ErrorCount(m) = 0
    /\ response.success <=> (\E i \in 1..Len(results) : results[i].success)

\* A parallel request that succeeded although one of its calls rejected.
C9_Witness ==
  /\ pc = "done"
  /\ executionStrategy.useParallel
  /\ \E m \in issued : calls[m].st = "rejected"
  /\ \E m \in issued : calls[m].st = "resolved" /\ ~calls[m].data.falsy
  /\ response.success
  /\ Len(response.errors) = 1

\* C10: execute always returns a response with a success flag and the
\* attempted and succeeded managers, whatever the backends did, and the
\* response carries a non-empty errors array whenever success is false.
C10_StructuredResponse ==
  pc = "done" =>
    /\ response.success \in BOOLEAN
    /\ Range(response.managers_succeeded) \subseteq
         Range(response.managers_attempted)
    /\ ~response.success => response.errors # <<>>

\* A search whose every call rejected, one of them losing its connection.
C10_Witness ==
  /\ pc = "done"
  /\ params.tool = "smart_package_search"
  /\ Cardinality(issued) = 2
  /\ \A m \in issued : calls[m].st = "rejected"
  /\ \E m \in issued : ~isConnected(m)
  /\ ~response.success
  /\ Len(response.errors) = 2
(***************************************************************************)
(* Properties of the responses                                             *)
(***************************************************************************)
\* C11: when every dispatched candidate failed, the response is success
\* false with no primary result, it carries an error of the kind
\* ALL_MANAGERS_FAILED, and exactly one error for each attempted manager.
C11_AllFailedIsAggregate ==
  (/\ pc = "done"
   /\ response.managers_attempted # <<>>
   /\ \A i \in 1..Len(results) : ~results[i].success) =>
    /\ ~response.success
    /\ response.primary = "none"
    /\ \E i \in 1..Len(response.errors) :
         response.errors[i].error_type = "ALL_MANAGERS_FAILED"
    /\ \A m \in Range(response.managers_attempted) : ErrorCount(m) = 1

\* C12: a request for lodash without hints or preferences, with the npm
\* backend available and connected, is dispatched with the single plan to npm
\* alone.
C12_LodashIsSingleNpm ==
  [][(/\ pc = "idle"
      /\ pc' # "idle"
      /\ params'.package_name = NAME_lodash
      /\ params'.context_hints = <<>>
      /\ params'.preferred_managers = <<>>
      /\ isManagerAvailable("npm")
      /\ isConnected("npm")) =>
       /\ pc' = "calling"
       /\ executionStrategy'.strategy = "single"
       /\ executionStrategy'.managers = <<"npm">>
       /\ issued' = {"npm"}]_vars

(***************************************************************************)
(* Detection and planning on their own                                     *)
(***************************************************************************)
\* The preferred_managers a planned request carries.
PlanPreferredLists == { <<>>, <<"npm">>, <<"pip">>, <<"pip", "cran">> }

\* Steps 1 to 3 of execute: the validity of the name, the detections of the
\* pattern detector and of the context analyzer, the aggregated detections
\* with their availability, and the strategy over the available ones.
PlanOf(request) ==
  LET detected == WithAvailability(DetectedFor(request))
  IN  [valid |-> validatePackageName(request.package_name),
       patternDetections |-> detectByPackageName(request.package_name),
       contextDetections |-> analyzeContextHints(request.context_hints),
       detectedManagers |-> detected,
       executionStrategy |->
         shouldUseParallelExecution(AvailableDetections(detected))]

InitPlan ==
  /\ connection_status \in
       { [m \in PackageManagerSet |->
            IF m \in connected THEN "connected" ELSE "disconnected"] :
           connected \in SUBSET ServerManagers }
  /\ clients = {}
  /\ connectionStatus = [m \in PackageManagerSet |-> FALSE]
  /\ pc = "idle"
  /\ params = NoParams
  /\ detectedManagers = <<>>
  /\ executionStrategy = NoStrategy
  /\ connectedManagers = <<>>
  /\ calls = NoCalls
  /\ elapsed = 0
  /\ issued = {}
  /\ results = <<>>
  /\ response = NoResponse
  /\ retry = NoRetry
  /\ CacheAtRest
  /\ lifecycle = NoLifecycle
  /\ fnIn \in [package_name : PackageNames,
               context_hints : ContextHintLists,
               preferred_managers : PlanPreferredLists]
  /\ fnOut = <<>>

planRequest ==
  /\ fnOut = <<>>
  /\ fnOut' = <<PlanOf(fnIn)>>
  /\ UNCHANGED <<registryVars, clientVars, requestVars, fnIn, retry,
                 cacheVars, lifecycle>>

NextPlan == planRequest

SpecPlan == InitPlan /\ [][NextPlan]_vars

\* C13: whenever a preferred manager is among the available detections of a
\* request, it is among the dispatched candidates and precedes every
\* non-preferred manager in the candidate order.
C13_PreferredManagersFirst ==
  (fnOut # <<>> /\ fnOut[1].valid) =>
    LET detected == fnOut[1].detectedManagers
        candidates == fnOut[1].executionStrategy.managers
        preferred == Range(fnIn.preferred_managers)
    IN  \A i \in 1..Len(detected) :
          (detected[i].available /\ detected[i].manager \in preferred) =>
            \E k \in 1..Len(candidates) :
              /\ candidates[k] = detected[i].manager
              /\ \A j \in 1..(k - 1) : candidates[j] \in preferred

\* C14: every detection of the pipeline, from the pattern detector, from the
\* context analyzer and from the aggregator, has a confidence within
\* [0, 0.95].
C14_DetectionConfidenceWithinBounds ==
  fnOut # <<>> =>
    \A detections \in { fnOut[1].patternDetections,
                         fnOut[1].contextDetections,
                         fnOut[1].detectedManagers } :
      \A i \in 1..Len(detections) :
        /\ detections[i].confidence >= 0
        /\ detections[i].confidence <= 95000

(***************************************************************************)
(* The scores of a result on their own                                     *)
(***************************************************************************)
\* The number of fields on the checklist of calculateCompletenessScore.
CHECKLIST_FIELDS == 8

\* Every content a backend can return, as the completeness score reads it.
PackageData ==
  {Undefined} \cup
  { Data(FALSE, fields, dependencies, versions) :
      fields \in 0..CHECKLIST_FIELDS,
      dependencies \in BOOLEAN, versions \in BOOLEAN }

\* Response times in milliseconds: immediate, within and beyond maxTimeMs.
ResponseTimes == {0, 4000, 12000}

InitScore ==
  /\ AtRest
  /\ fnIn \in [data : PackageData, response_time : ResponseTimes]
  /\ fnOut = <<>>

\* The scores selectBestResult computes for one result.
scoreResult ==
  /\ fnOut = <<>>
  /\ fnOut' = <<[completeness |-> calculateCompletenessScore(fnIn.data),
                 speedScore |-> calculateSpeedScore(fnIn.response_time)]>>
  /\ UNCHANGED <<registryVars, clientVars, requestVars, fnIn, retry,
                 cacheVars, lifecycle>>

NextScore == scoreResult

SpecScore == InitScore /\ [][NextScore]_vars

\* C15: the completeness of a payload is min(1, present / 8 + 0.5 for a
\* non-empty dependency map + 0.5 for a non-empty version list), so that a
\* payload with both scores 1.0 whatever its checklist fields; in sixteenths.
C15_CompletenessFormula ==
  (fnOut # <<>> /\ ~fnIn.data.falsy) =>
    fnOut[1].completeness =
      Min(16, 2 * fnIn.data.fields
              + (IF fnIn.data.dependencies THEN 8 ELSE 0)
              + (IF fnIn.data.versions THEN 8 ELSE 0))

(***************************************************************************)
(* Properties of the selection                                             *)
(***************************************************************************)
\* C16: the alternatives of a response with a primary result are exactly the
\* successful results other than the primary: one entry for each successful
\* manager that did not win, none for the primary's manager and none for a
\* manager that failed.
C16_AlternativesAreOtherSuccesses ==
  (pc = "done" /\ response.success /\ response.primary # "none") =>
    /\ \A i \in 1..Len(response.alternatives) :
         /\ response.alternatives[i] # response.primary
         /\ \E j \in 1..Len(results) :
              /\ results[j].manager = response.alternatives[i]
              /\ results[j].success
    /\ \A j \in 1..Len(results) :
         (results[j].success /\ results[j].manager # response.primary) =>
           Cardinality({ i \in 1..Len(response.alternatives) :
                           response.alternatives[i] = results[j].manager }) = 1

\* A response with a primary result and an alternative.
C16_Witness ==
  /\ pc = "done"
  /\ response.success
  /\ response.primary # "none"
  /\ Len(response.alternatives) = 1

RECURSIVE matrix(_, _, _, _)
matrix(str1, str2, i, j) ==
  IF i = 0 THEN j
  ELSE IF j = 0 THEN i
  ELSE IF str2[i] = str1[j] THEN matrix(str1, str2, i - 1, j - 1)
  ELSE Min(matrix(str1, str2, i - 1, j - 1) + 1,
           Min(matrix(str1, str2, i, j - 1) + 1,
               matrix(str1, str2, i - 1, j) + 1))

\* SimilarityCalculator.levenshteinDistance
levenshteinDistance(str1, str2) ==
  IF Len(str1) = 0 THEN Len(str2)
  ELSE IF Len(str2) = 0 THEN Len(str1)
  ELSE matrix(str1, str2, Len(str2), Len(str1))

\* calculateSimilarityScore with the containment test in one direction only.
calculateSimilarityScoreOneWay(original, candidate) ==
  LET originalLower == ToLowerCase(original)
      candidateLower == ToLowerCase(candidate)
      distance == levenshteinDistance(originalLower, candidateLower)
      maxLength == Max(Len(original), Len(candidate))
  IN  IF original = candidate THEN 1000
      ELSE IF Includes(candidateLower, originalLower) THEN 900
      ELSE Max(0, (1000 * (maxLength - distance)) \div maxLength)

\* SimilarityCalculator.calculateSimilarityScore, in thousandths rounded down.
calculateSimilarityScore(original, candidate) ==
  LET originalLower == ToLowerCase(original)
      candidateLower == ToLowerCase(candidate)
      distance == levenshteinDistance(originalLower, candidateLower)
      maxLength == Max(Len(original), Len(candidate))
  IN  IF original = candidate THEN 1000
      ELSE IF \/ Includes(candidateLower, originalLower)
              \/ Includes(originalLower, candidateLower) THEN 900
      ELSE Max(0, (1000 * (maxLength - distance)) \div maxLength)

\* Longest string given to the similarity score.
MaxStringLen == 3

\* The strings compared: of both cases, up to MaxStringLen characters.
SimilarityStrings ==
  UNION { [1..n -> {"a", "b", "A"}] : n \in 0..MaxStringLen }

InitSimilarity ==
  /\ AtRest
  /\ fnIn \in [original : SimilarityStrings, candidate : SimilarityStrings]
  /\ fnOut = <<>>

scoreSimilarity ==
  /\ fnOut = <<>>
  /\ fnOut' = <<calculateSimilarityScore(fnIn.original, fnIn.candidate)>>
  /\ UNCHANGED <<registryVars, clientVars, requestVars, fnIn, retry,
                 cacheVars, lifecycle>>

NextSimilarity == scoreSimilarity

SpecSimilarity == InitSimilarity /\ [][NextSimilarity]_vars

\* C18: the similarity score of a and b equals the similarity score of b
\* and a.
C18_SimilarityIsSymmetric ==
  fnOut # <<>> =>
    fnOut[1] = calculateSimilarityScore(fnIn.candidate, fnIn.original)

\* A score taken from the edit distance of two strings of different lengths,
\* neither of which contains the other.
C18_Witness ==
  /\ fnOut # <<>>
  /\ Len(fnIn.original) < Len(fnIn.candidate)
  /\ fnOut[1] \notin {0, 900, 1000}

\* C19: the similarity score of the empty string and a string x, in either
\* order, is 1.0 when x is empty and 0 when x is not.
C19_EmptyStringScores ==
  (fnOut # <<>> /\ (fnIn.original = <<>> \/ fnIn.candidate = <<>>)) =>
    fnOut[1] = IF fnIn.original = fnIn.candidate THEN 1000 ELSE 0

(***************************************************************************)
(* ToolProxy.executeWithRetry                                              *)
(***************************************************************************)
\* Largest maxRetries a caller passes.
MaxRetries == 5

\* The errors an attempt can fail with.
RetryErrors == {"Not connected", "Tool call timeout", "Tool call failed"}

\* The delay after a failed attempt, the cap left out.
backoffDelayUncapped(attempt) == 1000 * 2 ^ (attempt - 1)

\* Math.min(1000 * Math.pow(2, attempt - 1), 5000)
backoffDelay(attempt) == Min(1000 * 2 ^ (attempt - 1), 5000)

\* executeWithRetry entered: the loop starts its first attempt, or is skipped
\* when maxRetries is below one.
executeWithRetry(maxRetries) ==
  /\ retry.pc = "idle"
  /\ retry' =
       IF maxRetries >= 1
         THEN [NoRetry EXCEPT !.pc = "attempting", !.maxRetries = maxRetries,
                              !.attempt = 1]
         ELSE [NoRetry EXCEPT !.pc = "returned", !.maxRetries = maxRetries,
                              !.result = [success |-> FALSE,
                                          error |-> "All retry attempts failed"]]
  /\ UNCHANGED <<registryVars, clientVars, requestVars, fnIn, fnOut,
                 cacheVars, lifecycle>>

\* The awaited executeToolSingle returning a successful result, which is
\* returned at once.
attemptSucceeded ==
  /\ retry.pc = "attempting"
  /\ retry' = [retry EXCEPT !.pc = "returned", !.calls = @ + 1,
                            !.result = [success |-> TRUE, error |-> "none"]]
  /\ UNCHANGED <<registryVars, clientVars, requestVars, fnIn, fnOut,
                 cacheVars, lifecycle>>

\* The awaited executeToolSingle returning a failed result: the delay is
\* started when an attempt is left, otherwise the loop ends and the failed
\* result with the last error is returned.
attemptFailed(error) ==
  /\ retry.pc = "attempting"
  /\ retry' =
       IF retry.attempt < retry.maxRetries
         THEN [retry EXCEPT !.pc = "waiting", !.calls = @ + 1,
                            !.lastError = error,
                            !.delayMs = backoffDelay(retry.attempt)]
         ELSE [retry EXCEPT !.pc = "returned", !.calls = @ + 1,
                            !.lastError = error,
                            !.result = [success |-> FALSE, error |-> error]]
  /\ UNCHANGED <<registryVars, clientVars, requestVars, fnIn, fnOut,
                 cacheVars, lifecycle>>

\* The timer of the delay firing: the next attempt starts.
delayElapsed ==
  /\ retry.pc = "waiting"
  /\ retry' = [retry EXCEPT !.pc = "attempting", !.attempt = @ + 1,
                            !.waits = Append(@, retry.delayMs),
                            !.delayMs = 0]
  /\ UNCHANGED <<registryVars, clientVars, requestVars, fnIn, fnOut,
                 cacheVars, lifecycle>>

InitRetry ==
  /\ AtRest
  /\ fnIn = <<>>
  /\ fnOut = <<>>

NextRetry ==
  \/ \E maxRetries \in 0..MaxRetries : executeWithRetry(maxRetries)
  \/ attemptSucceeded
  \/ \E error \in RetryErrors : attemptFailed(error)
  \/ delayElapsed

SpecRetry == InitRetry /\ [][NextRetry]_vars

\* C20: executeWithRetry calls executeToolSingle at most maxRetries times;
\* attempt k+1 starts only after attempt k failed and a wait of
\* min(1000 * 2^(k-1), 5000) ms has passed; a successful attempt is returned
\* at once and nothing is called after a return; the failure of attempt
\* maxRetries returns, with no further wait, a failed result carrying the
\* last error.
C20_RetryWithBackoff ==
  [][/\ retry'.calls <= retry'.maxRetries
     /\ retry'.calls > retry.calls =>
          /\ retry.pc = "attempting"
          /\ retry'.calls = retry.calls + 1
          /\ retry'.calls = retry.attempt
     /\ (retry'.pc = "attempting" /\ retry'.attempt > 1) =>
          /\ retry.pc = "waiting"
          /\ retry.lastError \in RetryErrors
          /\ retry'.attempt = retry.attempt + 1
          /\ retry.calls = retry.attempt
          /\ retry.delayMs = Min(1000 * 2 ^ (retry.attempt - 1), 5000)
          /\ retry'.waits = Append(retry.waits, retry.delayMs)
     /\ (retry.pc = "attempting" /\ retry'.result.success) =>
          retry'.pc = "returned"
     /\ (retry.pc = "attempting" /\ ~retry'.result.success
         /\ retry.attempt = retry.maxRetries) =>
          /\ retry'.pc = "returned"
          /\ retry'.waits = retry.waits
          /\ Len(retry'.waits) = retry.maxRetries - 1
          /\ retry'.result.error = retry'.lastError
          /\ retry'.lastError \in RetryErrors
     /\ retry.pc = "returned" => retry' = retry]_vars

\* Five failed attempts with the waits 1, 2, 4 and 5 seconds between them,
\* the last two attempts failing with different errors.
C20_Witness ==
  /\ retry.pc = "returned"
  /\ retry.maxRetries = 5
  /\ retry.calls = 5
  /\ retry.waits = <<1000, 2000, 4000, 5000>>
  /\ ~retry.result.success
  /\ retry.result.error = "Tool call timeout"

(***************************************************************************)
(* MemoryCache                                                             *)
(***************************************************************************)
\* new MemoryCache(maxSize, defaultTtl)
maxSize == 2

defaultTtl == 50

\* Milliseconds the clock of the cache advances in one step, and the time at
\* which it stops.
ClockStepMs == 50

MaxNow == 100

CacheKeys == {"key1", "key2", "key3"}

CacheValues == {"value1"}

\* The keys getOrCompute is called for.
ComputedKeys == {"key1"}

\* The ttl argument of set: 0 stands for an argument left out.
CacheTtls == {0, 100}

otherThanCache ==
  <<registryVars, clientVars, requestVars, fnIn, fnOut, retry, lifecycle>>

\* A CacheEntry under its key.  storedAt is the time of the set that stored
\* the entry; it is not a field of CacheEntry and no operation reads it.
Entry(key, value, timestamp, ttl, storedAt) ==
  [key |-> key, value |-> value, timestamp |-> timestamp, ttl |-> ttl,
   storedAt |-> storedAt]

\* this.cache.get(key), as the place of the key in the entries; 0 if absent.
IndexOfKey(entries, key) ==
  IF \E i \in 1..Len(entries) : entries[i].key = key
    THEN CHOOSE i \in 1..Len(entries) : entries[i].key = key
    ELSE 0

\* MemoryCache.isExpired
isExpired(entry) == now - entry.timestamp > entry.ttl

\* this.cache.delete(key)
Without(entries, keys) == SelectSeq(entries, LAMBDA e : e.key \notin keys)

\* cleanup: the keys of the expired entries.
expiredKeys(entries) ==
  { entries[i].key : i \in { j \in 1..Len(entries) : isExpired(entries[j]) } }

\* The keys of the most recently used entries above maxSize.
mostRecentlyUsed(entries) ==
  IF Len(entries) > maxSize
    THEN LET sortedEntries ==
               SortDescending(entries,
                 [i \in 1..Len(entries) |-> entries[i].timestamp])
         IN  { sortedEntries[i].key : i \in 1..(Len(entries) - maxSize) }
    ELSE {}

\* cleanup: the keys of entriesToRemove, the first size - maxSize entries in
\* the order of ascending timestamp.
entriesToRemove(entries) ==
  IF Len(entries) > maxSize
    THEN LET sortedEntries ==
               SortDescending(entries,
                 [i \in 1..Len(entries) |-> 0 - entries[i].timestamp])
         IN  { sortedEntries[i].key : i \in 1..(Len(entries) - maxSize) }
    ELSE {}

\* cleanup with the removal of the expired entries alone.
cleanupExpiredOnly(entries) == Without(entries, expiredKeys(entries))

\* MemoryCache.cleanup
cleanup(entries) ==
  LET live == Without(entries, expiredKeys(entries))
  IN  Without(live, entriesToRemove(live))

\* this.cache.set(key, entry): an existing key keeps its place.
Put(entries, entry) ==
  LET at == IndexOfKey(entries, entry.key)
  IN  IF at = 0 THEN Append(entries, entry)
      ELSE [entries EXCEPT ![at] = entry]

\* The entries after MemoryCache.set.
AfterSet(key, value, ttl) ==
  LET actualTtl == IF ttl # 0 THEN ttl ELSE defaultTtl
  IN  cleanup(Put(cache, Entry(key, value, now, actualTtl, now)))

\* What MemoryCache.get returns for the entries.
GetResult(entries, key) ==
  LET at == IndexOfKey(entries, key)
  IN  IF at = 0 \/ isExpired(entries[at]) THEN "undefined"
      ELSE entries[at].value

\* The entries after MemoryCache.get.
AfterGet(key) ==
  LET at == IndexOfKey(cache, key)
  IN  IF at = 0 THEN cache
      ELSE IF isExpired(cache[at]) THEN Without(cache, {key})
      ELSE [cache EXCEPT ![at].timestamp = now]

\* MemoryCache.getStats
getStats == [total_entries |-> Len(cache)]

\* MemoryCache.set
set(key, value, ttl) ==
  /\ cache' = AfterSet(key, value, ttl)
  /\ lastCall' =
       LET actualTtl == IF ttl # 0 THEN ttl ELSE defaultTtl
           entries == Put(cache, Entry(key, value, now, actualTtl, now))
           live == Without(entries, expiredKeys(entries))
       IN  Call("set", key, Len(live) - Len(cache'))
  /\ UNCHANGED <<now, pending>>
  /\ UNCHANGED otherThanCache

\* MemoryCache.get
get(key) ==
  /\ cache' = AfterGet(key)
  /\ lastCall' = Call("get", key, GetResult(cache, key))
  /\ UNCHANGED <<now, pending>>
  /\ UNCHANGED otherThanCache

\* MemoryCache.has
has(key) ==
  /\ lastCall' = Call("has", key, GetResult(cache, key) # "undefined")
  /\ UNCHANGED <<cache, now, pending>>
  /\ UNCHANGED otherThanCache

\* MemoryCache.delete
delete(key) ==
  /\ cache' = Without(cache, {key})
  /\ lastCall' = Call("delete", key, IndexOfKey(cache, key) # 0)
  /\ UNCHANGED <<now, pending>>
  /\ UNCHANGED otherThanCache

\* MemoryCache.clear
clear ==
  /\ cache' = <<>>
  /\ lastCall' = Call("clear", "none", "undefined")
  /\ UNCHANGED <<now, pending>>
  /\ UNCHANGED otherThanCache

\* MemoryCache.getOrCompute up to its await: a hit is returned, a miss
\* invokes computeFn.
getOrCompute(caller, key) ==
  /\ pending[caller].st = "idle"
  /\ cache' = AfterGet(key)
  /\ IF GetResult(cache, key) # "undefined"
       THEN /\ lastCall' = Call("getOrCompute", key, GetResult(cache, key))
            /\ UNCHANGED pending
       ELSE /\ pending' = [pending EXCEPT ![caller] =
                             [st |-> "computing", key |-> key]]
            /\ UNCHANGED lastCall
  /\ UNCHANGED now
  /\ UNCHANGED otherThanCache

\* computeFn resolving: the value is stored and returned.
computeResolved(caller, value) ==
  /\ pending[caller].st = "computing"
  /\ cache' = AfterSet(pending[caller].key, value, 0)
  /\ pending' = [pending EXCEPT ![caller] = NotPending]
  /\ lastCall' = Call("getOrCompute", pending[caller].key, value)
  /\ UNCHANGED now
  /\ UNCHANGED otherThanCache

\* Time passing.
clockTick ==
  /\ now < MaxNow
  /\ now' = now + ClockStepMs
  /\ UNCHANGED <<cache, pending, lastCall>>
  /\ UNCHANGED otherThanCache

InitCache ==
  /\ AtRest
  /\ fnIn = <<>>
  /\ fnOut = <<>>

NextCache ==
  \/ \E key \in CacheKeys, value \in CacheValues, ttl \in CacheTtls :
       set(key, value, ttl)
  \/ \E key \in CacheKeys : get(key)
  \/ \E key \in CacheKeys : has(key)
  \/ \E key \in CacheKeys : delete(key)
  \/ clear
  \/ \E caller \in Callers, key \in ComputedKeys : getOrCompute(caller, key)
  \/ \E caller \in Callers, value \in CacheValues :
       computeResolved(caller, value)
  \/ clockTick

SpecCache == InitCache /\ [][NextCache]_vars

\* C21: an entry stored with time-to-live t is not returned by get, nor
\* reported by has, more than t ms after the set that stored it, however
\* often it was read in between.
C21_EntryGoneAfterTtl ==
  [][\A key \in CacheKeys :
       ((get(key) \/ has(key)) /\ GetResult(cache, key) # "undefined") =>
         LET entry == cache[IndexOfKey(cache, key)]
         IN  now - entry.storedAt <= entry.ttl]_vars

\* C22: after any sequence of set, get, has, delete, clear and getOrCompute
\* the number of entries getStats reports is at most maxSize.
C22_SizeWithinMaxSize == getStats.total_entries <= maxSize

\* A full cache whose last set removed an entry for the size.
C22_Witness ==
  /\ lastCall.op = "set"
  /\ lastCall.result = 1
  /\ getStats.total_entries = maxSize

\* C28: when the set of a new key takes the cache over maxSize, every entry
\* removed for the size was used no later than every entry kept, the key
\* written is kept, and a get of it returns the value written.
C28_EvictsLeastRecentlyUsed ==
  [][\A key \in CacheKeys, value \in CacheValues, ttl \in CacheTtls :
       (/\ set(key, value, ttl)
        /\ IndexOfKey(cache, key) = 0
        /\ Len(Without(cache, expiredKeys(cache))) >= maxSize) =>
         /\ GetResult(cache', key) = value
         /\ \A i \in 1..Len(cache), j \in 1..Len(cache') :
              (/\ IndexOfKey(cache', cache[i].key) = 0
               /\ ~isExpired(cache[i])
               /\ cache'[j].key # key) =>
                cache[i].timestamp <= cache'[j].timestamp]_vars

\* A set that removed an entry for the size and kept, beside the key written,
\* an entry that had been read after it was stored.
C28_Witness ==
  /\ lastCall.op = "set"
  /\ lastCall.result = 1
  /\ IndexOfKey(cache, lastCall.key) # 0
  /\ \E i \in 1..Len(cache) :
       /\ cache[i].key # lastCall.key
       /\ cache[i].timestamp > cache[i].storedAt

\* C30: for one key, computeFn is not invoked again while a computation is
\* pending: no two callers of getOrCompute await computeFn for the same key
\* at once.
C30_SingleComputation ==
  \A c1 \in Callers, c2 \in Callers :
    (c1 # c2 /\ pending[c1].st = "computing" /\ pending[c2].st = "computing")
      => pending[c1].key # pending[c2].key

(***************************************************************************)
(* Properties of the confidence calculator                                 *)
(***************************************************************************)
\* C23: calculateOverallConfidence leaves both input lists as they were:
\* after the call every input detection has the confidence and the reasons
\* it had before the call.
C23_InputsUnchanged ==
  fnOut # <<>> =>
    /\ fnOut[2].patternDetections = fnIn.patternDetections
    /\ fnOut[2].contextDetections = fnIn.contextDetections

\* The sum of the weights of the first k reasons placed in a category.
RECURSIVE AssignedWeight(_, _, _, _)
AssignedWeight(reasons, category, placed, k) ==
  IF k = 0 THEN 0
  ELSE (IF placed[k] = category THEN reasons[k].weight ELSE 0)
       + AssignedWeight(reasons, category, placed, k - 1)

\* C24: in the final confidence every reason contributes to exactly one of
\* the four weighted categories: the confidence of a returned detection is
\* the clamped sum, over the categories, of the category weight times
\* min(1, sum of the weights of the reasons placed in it), for some placing
\* of each reason in one category.
C24_EachReasonCountedOnce ==
  fnOut # <<>> =>
    \A i \in 1..Len(fnOut[1]) :
      LET reasons == fnOut[1][i].detection_reasons
          share(category, placed) ==
            Min(100, AssignedWeight(reasons, category, placed, Len(reasons)))
      IN  \E placed \in [1..Len(reasons) ->
                           {"exact", "pattern", "context", "preference"}] :
            fnOut[1][i].confidence =
              Min(95000, Max(10000,
                share("exact", placed) * WEIGHT_EXACT_PACKAGE_NAME_MATCH
                + share("pattern", placed) * WEIGHT_PACKAGE_NAME_PATTERN
                + share("context", placed) * WEIGHT_CONTEXT_HINTS
                + share("preference", placed) * WEIGHT_USER_PREFERENCE))

(***************************************************************************)
(* MCPClientManagerImpl: one manager's connection through its awaits       *)
(***************************************************************************)
\* The manager whose connection is followed.
LifecycleManager == "npm"

\* The connect calls that can be in flight at once: connect itself, the
\* attempts of retryConnection and the calls of connectAll are all calls of
\* connect.
ConnectCalls == {1, 2}

\* The clients created in one behaviour.
MaxClients == 3

\* serverConfigs[manager].health_check_interval, set as the README sets it.
health_check_interval == 30000

otherThanConnection ==
  <<registryVars, requestVars, fnIn, fnOut, retry, cacheVars>>

\* MCPClientManagerImpl.startHealthCheck: a new interval, stored under the
\* manager whatever was stored there.
startHealthCheck(l, timer) ==
  [l EXCEPT !.timers = @ \cup {timer}, !.interval = timer]

\* MCPClientManagerImpl.disconnect, "Stop health check": the interval stored
\* under the manager is cleared and deleted.
stopHealthCheck(l) ==
  [l EXCEPT !.timers = IF l.interval # 0 THEN @ \ {l.interval} ELSE @,
            !.interval = 0]

\* MCPClientManagerImpl.connect up to its await: the isConnected check, the
\* transport and the client.
connectStart(call) ==
  /\ lifecycle.connects[call] = 0
  /\ lifecycle.created < MaxClients
  /\ ~isConnected(LifecycleManager)
  /\ lifecycle' =
       [lifecycle EXCEPT !.connects[call] = lifecycle.created + 1,
                         !.created = @ + 1]
  /\ UNCHANGED <<clientVars, otherThanConnection>>

\* MCPClientManagerImpl.connect after client.connect(transport) resolved.
connectResolved(call) ==
  /\ lifecycle.connects[call] # 0
  /\ lifecycle.backendUp
  /\ LET id == lifecycle.connects[call]
         stored == [lifecycle EXCEPT !.connects[call] = 0,
                                     !.open = @ \cup {id},
                                     !.client = id,
                                     !.last = "connect"]
     IN  /\ clients' = clients \cup {LifecycleManager}
         /\ connectionStatus' =
              [connectionStatus EXCEPT ![LifecycleManager] = TRUE]
         /\ lifecycle' =
              IF health_check_interval # 0 THEN startHealthCheck(stored, id)
              ELSE stored
  /\ UNCHANGED otherThanConnection

\* MCPClientManagerImpl.connect after client.connect(transport) rejected.
connectRejected(call) ==
  /\ lifecycle.connects[call] # 0
  /\ ~lifecycle.backendUp
  /\ connectionStatus' =
       [connectionStatus EXCEPT ![LifecycleManager] = FALSE]
  /\ lifecycle' = [lifecycle EXCEPT !.connects[call] = 0]
  /\ UNCHANGED <<clients, otherThanConnection>>

\* MCPClientManagerImpl.disconnect up to its await, and to its end when no
\* client is stored; disconnectAll calls it for the managers of clients.
disconnectStart ==
  /\ lifecycle.closing = 0
  /\ IF lifecycle.client # 0
     THEN /\ lifecycle' = [lifecycle EXCEPT !.closing = lifecycle.client]
          /\ UNCHANGED connectionStatus
     ELSE /\ connectionStatus' =
               [connectionStatus EXCEPT ![LifecycleManager] = FALSE]
          /\ lifecycle' =
               stopHealthCheck([lifecycle EXCEPT !.last = "disconnect"])
  /\ UNCHANGED <<clients, otherThanConnection>>

\* MCPClientManagerImpl.disconnect after client.close() settled.
disconnectClosed ==
  /\ lifecycle.closing # 0
  /\ clients' = clients \ {LifecycleManager}
  /\ connectionStatus' =
       [connectionStatus EXCEPT ![LifecycleManager] = FALSE]
  /\ lifecycle' =
       stopHealthCheck([lifecycle EXCEPT !.open = @ \ {lifecycle.closing},
                                         !.client = 0,
                                         !.closing = 0,
                                         !.last = "disconnect"])
  /\ UNCHANGED otherThanConnection

\* The callback of startHealthCheck: listTools of the stored client fails
\* when the backend is down or that client was closed.
healthCheckTick(timer) ==
  /\ timer \in lifecycle.timers
  /\ IF /\ lifecycle.client # 0
        /\ (~lifecycle.backendUp \/ lifecycle.client \notin lifecycle.open)
     THEN /\ connectionStatus' =
               [connectionStatus EXCEPT ![LifecycleManager] = FALSE]
          /\ lifecycle' = [lifecycle EXCEPT !.last = "healthCheckFailed"]
     ELSE UNCHANGED <<connectionStatus, lifecycle>>
  /\ UNCHANGED <<clients, otherThanConnection>>

\* MCPClientManagerImpl.callTool failing with a message shouldReconnectOnError
\* accepts: ECONNRESET, EPIPE, ENOTFOUND, Connection closed.
callToolConnectionError ==
  /\ isConnected(LifecycleManager)
  /\ ~lifecycle.backendUp
  /\ connectionStatus' =
       [connectionStatus EXCEPT ![LifecycleManager] = FALSE]
  /\ lifecycle' = [lifecycle EXCEPT !.last = "connectionError"]
  /\ UNCHANGED <<clients, otherThanConnection>>

\* The backend of the manager going down.
backendFailed ==
  /\ lifecycle.backendUp
  /\ lifecycle' = [lifecycle EXCEPT !.backendUp = FALSE]
  /\ UNCHANGED <<clientVars, otherThanConnection>>

\* The backend of the manager coming back.
backendRecovered ==
  /\ ~lifecycle.backendUp
  /\ lifecycle' = [lifecycle EXCEPT !.backendUp = TRUE]
  /\ UNCHANGED <<clientVars, otherThanConnection>>

InitConnection ==
  /\ AtRest
  /\ fnIn = <<>>
  /\ fnOut = <<>>

NextConnection ==
  \/ \E call \in ConnectCalls : connectStart(call)
  \/ \E call \in ConnectCalls : connectResolved(call)
  \/ \E call \in ConnectCalls : connectRejected(call)
  \/ disconnectStart
  \/ disconnectClosed
  \/ \E timer \in 1..MaxClients : healthCheckTick(timer)
  \/ callToolConnectionError
  \/ backendFailed
  \/ backendRecovered

SpecConnection == InitConnection /\ [][NextConnection]_vars

\* What the process does without being called: a pending connect or close
\* settles, and a running interval fires.  Nothing in the server calls connect
\* after connectAll at start-up, so connectStart is not among them.
FairConnection ==
  /\ WF_vars(\E call \in ConnectCalls : connectResolved(call))
  /\ WF_vars(\E call \in ConnectCalls : connectRejected(call))
  /\ WF_vars(disconnectClosed)
  /\ WF_vars(\E timer \in 1..MaxClients : healthCheckTick(timer))

SpecRecovery == SpecConnection /\ FairConnection

\* C25: at any time at most one client and at most one health-check timer
\* exist for the manager, and after a completed disconnect none remains.
C25_OneClientOneTimer ==
  /\ Cardinality(lifecycle.open) <= 1
  /\ Cardinality(lifecycle.timers) <= 1
  /\ lifecycle.last = "disconnect" =>
       lifecycle.open = {} /\ lifecycle.timers = {}

\* C26: a manager marked disconnected by a connection error of a tool call
\* or by a failed health check, whose backend is up again, becomes connected,
\* unless the backend goes down again or a disconnect completes first.
C26_ReconnectsAfterRecovery ==
  (/\ lifecycle.last \in {"connectionError", "healthCheckFailed"}
   /\ ~isConnected(LifecycleManager)
   /\ lifecycle.backendUp)
    ~> \/ isConnected(LifecycleManager)
       \/ ~lifecycle.backendUp
       \/ lifecycle.last = "disconnect"

(***************************************************************************)
(* ToolHandler and Validators: a request from the handler on               *)
(***************************************************************************)
\* VALIDATION_RULES.package_name.max_length
max_length == 214

\* VALIDATION_RULES.context_hints.max_count
max_count == 20

\* VALIDATION_RULES.context_hints.max_length_per_hint
max_length_per_hint == 100

\* VALIDATION_RULES.package_name.allowed_chars
allowed_chars == Alnum \cup {"@", "/", "-", "_", ".", "~"}

\* VALIDATION_RULES.package_name.blocked_patterns
blocked_patterns ==
  { <<".", ".", "/">>, SCRIPT_TAG, JAVASCRIPT_SCHEME, DATA_SCHEME, <<NUL>> }

\* Validators.validatePackageName: no error was pushed.
ValidatorsValidatePackageName(packageName) ==
  /\ Len(packageName) # 0
  /\ Len(packageName) <= max_length
  /\ AllIn(packageName, 1, Len(packageName), allowed_chars)
  /\ \A pattern \in blocked_patterns : ~Includes(packageName, pattern)
  /\ Head(packageName) # "."
  /\ packageName[Len(packageName)] # "."
  /\ ~Includes(packageName, <<"/", "/">>)

\* Validators.sanitizeContextHint; the empty string stands for null.
sanitizeContextHint(hint) ==
  CollapseWhitespace(Trim(RemoveChars(hint, DangerousHintChars \cup {NUL})))

\* Validators.validateContextHints of an array of strings: valid
validateContextHints(contextHints) ==
  /\ Len(contextHints) <= max_count
  /\ \A i \in 1..Len(contextHints) :
       Len(contextHints[i]) <= max_length_per_hint

\* Validators.validateContextHints of a valid array: sanitized
RECURSIVE SanitizedContextHints(_)
SanitizedContextHints(contextHints) ==
  IF contextHints = <<>> THEN <<>>
  ELSE LET sanitizedHint == sanitizeContextHint(Head(contextHints))
       IN  (IF sanitizedHint # <<>> THEN <<sanitizedHint>> ELSE <<>>)
             \o SanitizedContextHints(Tail(contextHints))

\* Validators.validatePreferredManagers of an array of strings: valid
validatePreferredManagers(preferredManagers) ==
  \A i \in 1..Len(preferredManagers) :
    preferredManagers[i] \in PackageManagerSet

\* Validators.validatePreferredManagers of a valid array: validated
RECURSIVE ValidatedPreferredManagers(_, _)
ValidatedPreferredManagers(preferredManagers, validated) ==
  IF preferredManagers = <<>> THEN validated
  ELSE ValidatedPreferredManagers(
         Tail(preferredManagers),
         IF Head(preferredManagers) \in Range(validated) THEN validated
         ELSE Append(validated, Head(preferredManagers)))

\* Validators.processValidations over the validations of a request whose
\* limit, version and flags are left out: valid
processValidations(request) ==
  /\ ValidatorsValidatePackageName(request.package_name)
  /\ validateContextHints(request.context_hints)
  /\ validatePreferredManagers(request.preferred_managers)

\* Validators.validateSmartPackageSearchParams
validateSmartPackageSearchParams(request) == processValidations(request)

\* Validators.validateSmartPackageReadmeParams
validateSmartPackageReadmeParams(request) == processValidations(request)

\* Validators.validateSmartPackageInfoParams
validateSmartPackageInfoParams(request) == processValidations(request)

\* The preferred_managers a handled request carries; yarn is not a member of
\* PackageManager.
HandlerPreferredLists == PreferredManagerLists \cup { <<"yarn">> }

\* ToolHandler.createValidationErrorResponse returned to the caller.
createValidationErrorResponse(tool, request) ==
  /\ params' = [tool |-> tool, package_name |-> request.package_name,
                context_hints |-> request.context_hints,
                preferred_managers |-> request.preferred_managers]
  /\ ReturnEarly("VALIDATION_ERROR", <<>>)
  /\ UNCHANGED <<registryVars, clientVars, fnVars>>

\* The tool executing validation.validatedParams.
executeValidated(tool, request) ==
  \E context_hints \in {SanitizedContextHints(request.context_hints)},
     preferred_managers \in
       {ValidatedPreferredManagers(request.preferred_managers, <<>>)} :
    execute(tool, request.package_name, context_hints, preferred_managers)

\* ToolHandler.handleToolCall for the three smart tools, up to the await of
\* the tool proxy: handleSmartPackageSearch, handleSmartPackageReadme,
\* handleSmartPackageInfo.
handleToolCall(tool, request) ==
  /\ pc = "idle"
  /\ IF tool = "smart_package_search"
       THEN IF ~validateSmartPackageSearchParams(request)
              THEN createValidationErrorResponse(tool, request)
              ELSE executeValidated(tool, request)
     ELSE IF tool = "smart_package_readme"
       THEN \E package_name \in {request.package_name},
               context_hints \in {request.context_hints},
               preferred_managers \in {request.preferred_managers} :
              execute(tool, package_name, context_hints, preferred_managers)
     ELSE IF ~validateSmartPackageInfoParams(request)
       THEN createValidationErrorResponse(tool, request)
       ELSE executeValidated(tool, request)

NextHandler ==
  \/ \E m \in ServerManagers, s \in {"connected", "disconnected"} :
       updateConnectionStatus(m, s)
  \/ \E m \in ServerManagers : connect(m)
  \/ \E m \in ServerManagers : connectFailed(m)
  \/ \E m \in ServerManagers : disconnect(m)
  \/ \E m \in ServerManagers : healthCheckFailed(m)
  \/ \E tool \in Tools, name \in PackageNames, hints \in ContextHintLists,
        preferred \in HandlerPreferredLists :
       \E request \in {[package_name |-> name, context_hints |-> hints,
                         preferred_managers |-> preferred]} :
         handleToolCall(tool, request)
  \/ \E m \in PackageManagerSet, data \in Payloads : callResolved(m, data)
  \/ \E m \in PackageManagerSet, reconnectError \in BOOLEAN :
       callRejected(m, reconnectError)
  \/ \E m \in PackageManagerSet : callTimedOut(m)
  \/ Tick
  \/ executeReturn
  \/ nextRequest

SpecHandler == Init /\ [][NextHandler]_vars

\* The request the handler received, as params records it or, after a
\* validation that passed, as the validated parameters it became.
Malformed(tool, package_name, context_hints, preferred_managers) ==
  LET request == [package_name |-> package_name,
                  context_hints |-> context_hints,
                  preferred_managers |-> preferred_managers]
  IN  IF tool = "smart_package_search"
        THEN ~validateSmartPackageSearchParams(request)
      ELSE IF tool = "smart_package_readme"
        THEN ~validateSmartPackageReadmeParams(request)
      ELSE ~validateSmartPackageInfoParams(request)

\* C27: a call of one of the three tools with a malformed package name or
\* malformed context_hints or preferred_managers ends with a validation
\* failure, before any detection and any backend call.
C27_MalformedIsRejectedFirst ==
  [][(/\ pc = "idle"
      /\ pc' # "idle"
      /\ Malformed(params'.tool, params'.package_name, params'.context_hints,
                   params'.preferred_managers)) =>
       /\ pc' = "done"
       /\ response'.errors[1].error_type \in
            {"VALIDATION_ERROR", "INVALID_PACKAGE_NAME"}
       /\ detectedManagers' = <<>>
       /\ issued' = {}]_vars

\* C29: for one connected manager whose call has settled, executeToolParallel
\* over that manager alone and executeToolSingle report the same success
\* flag, whatever the call resolved with.
C29_SingleAndParallelAgree ==
  \A m \in PackageManagerSet :
    (/\ pc = "calling"
     /\ connectedManagers = <<m>>
     /\ calls[m].st # "pending") =>
      LET parallel == executeToolParallel(<<m>>)
      IN  /\ Len(parallel) = 1
          /\ parallel[1].manager = m
          /\ parallel[1].success = executeToolSingle(m).success
====
